---- MODULE Spec2Model ----
(***************************************************************************)
(* A model of the local RPC transport of griptape-nodes-blender:           *)
(*   src/blender/blender_socket_server.py  (BlenderSocketServer)           *)
(*   src/blender/socket_client.py          (BlenderSocketClient)           *)
(*                                                                         *)
(* A Python value is a record with one field, named by its type; a str is  *)
(* a sequence of words, so that "word in s" and f-string concatenation can *)
(* be computed.  The bytes on a socket are sequences of JSON tokens;       *)
(* json_dumps and json_loads are computed over them.                       *)
(***************************************************************************)
EXTENDS Integers, Sequences, FiniteSets, TLC

(***************************************************************************)
(* Python values                                                           *)
(***************************************************************************)
PyNone == [none |-> <<>>]
PyBool(b) == [bool |-> b]
PyInt(n) == [int |-> n]
PyStr(ws) == [str |-> ws]
PyList(s) == [list |-> s]
PyDict(f) == [dict |-> f]
\* a Python set: a value json.dumps raises TypeError on
PySet(s) == [set |-> s]

\* type(x).__name__ and the payload of a value
Ty(x) == CHOOSE t \in DOMAIN x : TRUE
V(x) == x[Ty(x)]

\* d.get(key, default)
dict_get(d, key, default) ==
    IF key \in DOMAIN V(d) THEN V(d)[key] ELSE default

\* str(x) of the values that reach an f-string in the server
str(x) ==
    CASE Ty(x) = "str" -> V(x)
      [] Ty(x) = "none" -> <<"None">>
      [] Ty(x) = "bool" -> IF V(x) THEN <<"True">> ELSE <<"False">>
      [] Ty(x) = "int" -> <<"<int>">>
      [] Ty(x) = "list" -> <<"<list>">>
      [] Ty(x) = "dict" -> <<"<dict>">>
      [] OTHER -> <<"<object>">>

\* s.lower(), word by word
LowerWord(w) ==
    CASE w = "Dependency" -> "dependency"
      [] w = "Depsgraph" -> "depsgraph"
      [] w = "Memory" -> "memory"
      [] OTHER -> w

lower(ws) == [i \in DOMAIN ws |-> LowerWord(ws[i])]

\* word in s
Contains(ws, w) == \E i \in DOMAIN ws : ws[i] = w

(***************************************************************************)
(* The wire codec: json.dumps / json.loads over byte sequences.  A byte    *)
(* sequence is a sequence of tokens: punctuation, digits, the literals,    *)
(* and strings written as a quote, their words and a quote.                *)
(***************************************************************************)
Quote == "\""
\* a byte that is not valid UTF-8
BadUtf8 == "\\xff"
\* a whitespace character
Space == " "
Digits == {"0", "1", "2", "3", "4", "5", "6", "7", "8", "9"}
DigitNames == <<"0", "1", "2", "3", "4", "5", "6", "7", "8", "9">>

DigitValue(d) == (CHOOSE i \in 1..10 : DigitNames[i] = d) - 1

\* a variant that writes the last digit only
IntTokens_LastDigit(n) == <<DigitNames[(n % 10) + 1]>>

RECURSIVE IntTokens(_)
IntTokens(n) ==
    IF n < 10 THEN <<DigitNames[n + 1]>>
    ELSE IntTokens(n \div 10) \o <<DigitNames[(n % 10) + 1]>>

\* the keys of a dict in the order they are written
KeyOrder ==
    <<"command", "params", "code", "success", "error", "status",
      "blender_version", "timestamp", "result", "message", "scene", "blender",
      "render", "cameras", "count", "active_camera", "name", "location",
      "rotation", "active", "frame_current", "frame_start", "frame_end",
      "version", "build_date", "build_hash", "engine", "resolution_x",
      "resolution_y", "resolution_percentage", "image", "extra">>

KeysOf(f) == SelectSeq(KeyOrder, LAMBDA key : key \in DOMAIN f)

\* json.dumps(x) does not raise TypeError
RECURSIVE IsEncodable(_)
IsEncodable(x) ==
    CASE Ty(x) = "set" -> FALSE
      [] Ty(x) = "list" -> \A i \in DOMAIN V(x) : IsEncodable(V(x)[i])
      [] Ty(x) = "dict" -> \A key \in DOMAIN V(x) : IsEncodable(V(x)[key])
      [] OTHER -> TRUE

RECURSIVE json_dumps(_)
RECURSIVE DumpItems(_, _)
RECURSIVE DumpPairs(_, _)
DumpItems(s, i) ==
    IF i > Len(s) THEN <<>>
    ELSE (IF i > 1 THEN <<",">> ELSE <<>>) \o json_dumps(s[i]) \o DumpItems(s, i + 1)

DumpPairs(f, keys) ==
    IF keys = <<>> THEN <<>>
    ELSE <<Quote, Head(keys), Quote, ":">> \o json_dumps(f[Head(keys)])
           \o (IF Len(keys) > 1 THEN <<",">> ELSE <<>>)
           \o DumpPairs(f, Tail(keys))

\* json.dumps(x) of an encodable value
json_dumps(x) ==
    CASE Ty(x) = "none" -> <<"null">>
      [] Ty(x) = "bool" -> <<IF V(x) THEN "true" ELSE "false">>
      [] Ty(x) = "int" -> IntTokens(V(x))
      [] Ty(x) = "str" -> <<Quote>> \o V(x) \o <<Quote>>
      [] Ty(x) = "list" -> <<"[">> \o DumpItems(V(x), 1) \o <<"]">>
      [] Ty(x) = "dict" -> <<"{">> \o DumpPairs(V(x), KeysOf(V(x))) \o <<"}">>

\* bytes.decode('utf-8') does not raise UnicodeDecodeError
Utf8Ok(buf) == \A i \in DOMAIN buf : buf[i] # BadUtf8

Fail == [ok |-> FALSE, val |-> PyNone, rest |-> <<>>]
Got(val, rest) == [ok |-> TRUE, val |-> val, rest |-> rest]

IsTok(toks, t) == toks # <<>> /\ Head(toks) = t

RECURSIVE ParseDigits(_, _)
ParseDigits(toks, acc) ==
    IF toks # <<>> /\ Head(toks) \in Digits
    THEN ParseDigits(Tail(toks), acc * 10 + DigitValue(Head(toks)))
    ELSE Got(PyInt(acc), toks)

\* the words of a string after its opening quote, up to the closing quote
RECURSIVE ParseString(_, _)
ParseString(toks, acc) ==
    IF toks = <<>> THEN Fail
    ELSE IF Head(toks) = Quote THEN Got(PyStr(acc), Tail(toks))
    ELSE ParseString(Tail(toks), Append(acc, Head(toks)))

RECURSIVE ParseValue(_)
RECURSIVE ParseItems(_, _)
RECURSIVE ParsePairs(_, _)
\* the items of a list after "[" or after a ","
ParseItems(toks, acc) ==
    LET r == ParseValue(toks) IN
    IF ~r.ok THEN Fail
    ELSE IF IsTok(r.rest, ",") THEN ParseItems(Tail(r.rest), Append(acc, r.val))
    ELSE IF IsTok(r.rest, "]") THEN Got(PyList(Append(acc, r.val)), Tail(r.rest))
    ELSE Fail

\* the pairs of an object after "{" or after a ","; a repeated key keeps the last
ParsePairs(toks, acc) ==
    IF ~IsTok(toks, Quote) THEN Fail
    ELSE LET k == ParseString(Tail(toks), <<>>) IN
         IF ~k.ok \/ Len(V(k.val)) # 1 \/ ~IsTok(k.rest, ":") THEN Fail
         ELSE LET key == V(k.val)[1]
                  r == ParseValue(Tail(k.rest))
                  acc2 == [x \in DOMAIN acc \cup {key} |->
                              IF x = key THEN r.val ELSE acc[x]]
              IN IF ~r.ok THEN Fail
                 ELSE IF IsTok(r.rest, ",") THEN ParsePairs(Tail(r.rest), acc2)
                 ELSE IF IsTok(r.rest, "}") THEN Got(PyDict(acc2), Tail(r.rest))
                 ELSE Fail

ParseValue(toks) ==
    IF toks = <<>> THEN Fail
    ELSE LET t == Head(toks) IN
         CASE t \in Digits -> ParseDigits(toks, 0)
           [] t = Quote -> ParseString(Tail(toks), <<>>)
           [] t = "null" -> Got(PyNone, Tail(toks))
           [] t = "true" -> Got(PyBool(TRUE), Tail(toks))
           [] t = "false" -> Got(PyBool(FALSE), Tail(toks))
           [] t = "[" ->
                IF IsTok(Tail(toks), "]") THEN Got(PyList(<<>>), Tail(Tail(toks)))
                ELSE ParseItems(Tail(toks), <<>>)
           [] t = "{" ->
                IF IsTok(Tail(toks), "}") THEN Got(PyDict(<<>>), Tail(Tail(toks)))
                ELSE ParsePairs(Tail(toks), <<>>)
           [] OTHER -> Fail

\* json.loads(text): one complete document and nothing after it; whitespace
\* between the tokens is skipped
json_loads(toks) ==
    LET r == ParseValue(SelectSeq(toks, LAMBDA t : t # Space)) IN
    IF r.ok /\ r.rest = <<>> THEN [ok |-> TRUE, val |-> r.val]
    ELSE [ok |-> FALSE, val |-> PyNone]

(***************************************************************************)
(* Exceptions                                                              *)
(***************************************************************************)
Exc(cls, msg) == [cls |-> cls, msg |-> msg]

\* the classes that derive from BaseException but not from Exception
NotExceptionClasses == {"SystemExit", "KeyboardInterrupt", "GeneratorExit"}

\* what "except Exception" catches
IsException(e) == e.cls \notin NotExceptionClasses

\* the outcome of a call: a returned value or a raised exception
Return(val) == [raised |-> FALSE, val |-> val, exc |-> Exc("", <<>>)]
Raise(e) == [raised |-> TRUE, val |-> PyNone, exc |-> e]

(***************************************************************************)
(* The host (bpy): the scene's objects, its active camera, and whether an  *)
(* access to bpy raises in the calling thread                              *)
(***************************************************************************)
Obj(name, type) == [name |-> name, type |-> type]

Hosts ==
    [fault : BOOLEAN,
     objects : {<<>>, <<Obj("Camera", "CAMERA")>>,
                <<Obj("Cube", "MESH"), Obj("Camera", "CAMERA"), Obj("Cam2", "CAMERA")>>},
     camera : {"", "Camera"}]

HostFault == Exc("AttributeError", <<"bpy", "restricted">>)

(***************************************************************************)
(* exec(code, namespace): what each payload does.  A payload returns with  *)
(* the namespace's result slot set or left None, or raises.                *)
(***************************************************************************)
Ran(result) == [raised |-> FALSE, result |-> result, exc |-> Exc("", <<>>)]
Threw(e) == [raised |-> TRUE, result |-> PyNone, exc |-> e]

\* the result map the render payload leaves when the render fails
RenderFailed ==
    PyDict([success |-> PyBool(FALSE), error |-> PyStr(<<"Render", "failed">>)])

RenderDone ==
    PyDict([success |-> PyBool(TRUE), image |-> PyStr(<<"base64">>)])

exec(code) ==
    IF Ty(code) # "str"
    THEN Threw(Exc("TypeError", <<"exec()", "arg", "1", "must", "be", "a", "string">>))
    ELSE CASE V(code) = <<>> -> Ran(PyNone)
           [] V(code) = <<"pass">> -> Ran(PyNone)
           [] V(code) = <<"result", "=", "1">> -> Ran(PyInt(1))
           [] V(code) = <<"result", "=", "{1}">> -> Ran(PySet({1}))
           [] V(code) = <<"render", "ok">> -> Ran(RenderDone)
           [] V(code) = <<"render", "fails">> -> Ran(RenderFailed)
           [] V(code) = <<"raise", "MemoryError">> -> Threw(Exc("MemoryError", <<>>))
           [] V(code) = <<"def", "f():", "f()">> ->
                Threw(Exc("RecursionError", <<"maximum", "recursion", "depth", "exceeded">>))
           [] V(code) = <<"raise", "ValueError('boom')">> ->
                Threw(Exc("ValueError", <<"boom">>))
           [] V(code) = <<"raise", "Exception('memory')">> ->
                Threw(Exc("Exception", <<"memory">>))
           [] V(code) = <<"raise", "RuntimeError('Dependency", "cycle')">> ->
                Threw(Exc("RuntimeError", <<"Dependency", "cycle">>))
           [] V(code) = <<"raise", "SystemExit">> -> Threw(Exc("SystemExit", <<>>))
           [] OTHER -> Threw(Exc("SyntaxError", <<"invalid", "syntax">>))

(***************************************************************************)
(* The command handlers                                                    *)
(***************************************************************************)
ErrorResult(msg) == PyDict([success |-> PyBool(FALSE), error |-> PyStr(msg)])

_health_check(host) ==
    IF host.fault THEN Raise(HostFault)
    ELSE Return(PyDict([success |-> PyBool(TRUE),
                        status |-> PyStr(<<"healthy">>),
                        blender_version |-> PyStr(<<"4.0">>),
                        timestamp |-> PyInt(17)]))

_get_scene_info(host) ==
    IF host.fault THEN Return(ErrorResult(HostFault.msg))
    ELSE Return(PyDict(
           [success |-> PyBool(TRUE),
            scene |-> PyDict([name |-> PyStr(<<"Scene">>),
                              frame_current |-> PyInt(1),
                              frame_start |-> PyInt(1),
                              frame_end |-> PyInt(250)]),
            blender |-> PyDict([version |-> PyStr(<<"4.0">>),
                                build_date |-> PyStr(<<"Unknown">>),
                                build_hash |-> PyStr(<<"Unknown">>)]),
            render |-> PyDict([engine |-> PyStr(<<"CYCLES">>),
                               resolution_x |-> PyInt(1920),
                               resolution_y |-> PyInt(1080),
                               resolution_percentage |-> PyInt(100)])]))

CameraEntry(host, o) ==
    PyDict([name |-> PyStr(<<o.name>>),
            location |-> PyList(<<PyInt(0), PyInt(0), PyInt(0)>>),
            rotation |-> PyList(<<PyInt(0), PyInt(0), PyInt(0)>>),
            active |-> PyBool(o.name = host.camera)])

\* a variant that makes an entry of every object, camera or not
CameraEntries_AllObjects(host, objs) ==
    [i \in DOMAIN objs |-> CameraEntry(host, objs[i])]

RECURSIVE CameraEntries(_, _)
CameraEntries(host, objs) ==
    IF objs = <<>> THEN <<>>
    ELSE (IF Head(objs).type = "CAMERA" THEN <<CameraEntry(host, Head(objs))>> ELSE <<>>)
           \o CameraEntries(host, Tail(objs))

_list_cameras(host) ==
    IF host.fault THEN Return(ErrorResult(HostFault.msg))
    ELSE LET cameras == CameraEntries(host, host.objects) IN
         Return(PyDict([success |-> PyBool(TRUE),
                        cameras |-> PyList(cameras),
                        count |-> PyInt(Len(cameras)),
                        active_camera |-> IF host.camera = "" THEN PyNone
                                          ELSE PyStr(<<host.camera>>)]))

\* a variant that reports a failed payload without the error field
_execute_code_NoErrorField(code) ==
    LET r == exec(code) IN
    IF ~r.raised
    THEN IF r.result # PyNone
         THEN Return(PyDict([success |-> PyBool(TRUE), result |-> r.result]))
         ELSE Return(PyDict([success |-> PyBool(TRUE),
                             message |-> PyStr(<<"Code", "executed", "successfully">>)]))
    ELSE IF IsException(r.exc)
    THEN Return(PyDict([success |-> PyBool(FALSE),
                        message |-> PyStr(<<"Code", "execution", "failed:">> \o r.exc.msg)]))
    ELSE Raise(r.exc)

\* a variant without the clauses for MemoryError and RecursionError
_execute_code_OneClause(code) ==
    LET r == exec(code) IN
    IF ~r.raised
    THEN IF r.result # PyNone
         THEN Return(PyDict([success |-> PyBool(TRUE), result |-> r.result]))
         ELSE Return(PyDict([success |-> PyBool(TRUE),
                             message |-> PyStr(<<"Code", "executed", "successfully">>)]))
    ELSE IF IsException(r.exc)
    THEN Return(ErrorResult(<<"Code", "execution", "failed:">> \o r.exc.msg))
    ELSE Raise(r.exc)

\* a variant whose success is the one of the payload's own result map
_execute_code_InnerSuccess(code) ==
    LET r == exec(code) IN
    IF ~r.raised
    THEN IF r.result # PyNone
         THEN Return(PyDict([success |-> IF Ty(r.result) = "dict"
                                         THEN dict_get(r.result, "success", PyBool(TRUE))
                                         ELSE PyBool(TRUE),
                             result |-> r.result]))
         ELSE Return(PyDict([success |-> PyBool(TRUE),
                             message |-> PyStr(<<"Code", "executed", "successfully">>)]))
    ELSE IF IsException(r.exc)
    THEN Return(ErrorResult(<<"Code", "execution", "failed:">> \o r.exc.msg))
    ELSE Raise(r.exc)

_execute_code(code) ==
    LET r == exec(code) IN
    IF ~r.raised
    THEN IF r.result # PyNone
         THEN Return(PyDict([success |-> PyBool(TRUE), result |-> r.result]))
         ELSE Return(PyDict([success |-> PyBool(TRUE),
                             message |-> PyStr(<<"Code", "executed", "successfully">>)]))
    ELSE IF r.exc.cls = "MemoryError"
    THEN Return(ErrorResult(<<"Out", "of", "memory", "-", "scene", "too", "complex",
                              "for", "this", "operation">>))
    ELSE IF r.exc.cls = "RecursionError"
    THEN Return(ErrorResult(<<"Operation", "too", "complex", "-", "recursion", "limit",
                              "exceeded">>))
    ELSE IF IsException(r.exc)
    THEN IF Contains(lower(r.exc.msg), "dependency") \/ Contains(lower(r.exc.msg), "depsgraph")
         THEN Return(ErrorResult(<<"Scene", "dependency", "error:">> \o r.exc.msg
                                   \o <<".", "Try", "with", "a", "simpler", "scene.">>))
         ELSE Return(ErrorResult(<<"Code", "execution", "failed:">> \o r.exc.msg))
    ELSE Raise(r.exc)

(***************************************************************************)
(* Dispatch                                                                *)
(***************************************************************************)
RegisteredCommands ==
    {PyStr(<<"health_check">>), PyStr(<<"get_scene_info">>),
     PyStr(<<"list_cameras">>), PyStr(<<"execute_code">>)}

NoAttribute(x, attr) ==
    Exc("AttributeError", <<Ty(x), "object", "has", "no", "attribute", attr>>)

\* the try block of _process_request: the handler the command names
Dispatch(command, params, host) ==
    IF command = PyStr(<<"health_check">>) THEN _health_check(host)
    ELSE IF command = PyStr(<<"get_scene_info">>) THEN _get_scene_info(host)
    ELSE IF command = PyStr(<<"list_cameras">>) THEN _list_cameras(host)
    ELSE IF command = PyStr(<<"execute_code">>)
    THEN _execute_code(dict_get(params, "code", PyStr(<<>>)))
    ELSE Return(ErrorResult(<<"Unknown", "command:">> \o str(command)))

\* a variant in which a request without params has no params at all
_process_request_NoDefault(request, host) ==
    IF Ty(request) # "dict" THEN Raise(NoAttribute(request, "get"))
    ELSE LET command == dict_get(request, "command", PyNone)
             params == dict_get(request, "params", PyNone)
         IN IF Ty(params) # "dict" THEN Raise(NoAttribute(params, "keys"))
            ELSE LET r == Dispatch(command, params, host) IN
                 IF r.raised /\ IsException(r.exc)
                 THEN Return(ErrorResult(<<"Command", "processing", "failed:">> \o r.exc.msg))
                 ELSE r

_process_request(request, host) ==
    IF Ty(request) # "dict" THEN Raise(NoAttribute(request, "get"))
    ELSE LET command == dict_get(request, "command", PyNone)
             params == dict_get(request, "params", PyDict(<<>>))
         IN IF Ty(params) # "dict" THEN Raise(NoAttribute(params, "keys"))
            ELSE LET r == Dispatch(command, params, host) IN
                 IF r.raised /\ IsException(r.exc)
                 THEN Return(ErrorResult(<<"Command", "processing", "failed:">> \o r.exc.msg))
                 ELSE r

(***************************************************************************)
(* Bounds and inputs                                                       *)
(***************************************************************************)
\* connections open at the same time
MaxOpen == 1
\* calls of start() that create a socket
MaxStarts == 1
\* pieces a peer writes its bytes in
MaxChunks == 2
\* bytes of a response that reach the socket before sendall raises
MaxCut == 2

\* how many connections are open at once where handlers run side by side
MaxConcurrent == 2

\* calls of start() that create a socket where the listener is stopped and started again
MaxLifecycles == 2
\* how many coroutine frames the interpreter allows on one stack before it
\* raises RecursionError (sys.getrecursionlimit(), 1000 by default)
MaxDepth == 9
\* how many worker threads a stream node starts
MaxWorkers == 2
\* how many frames a stream captures
MaxFrames == 2

Conns == 1..MaxOpen
Socks == 1..MaxStarts
Concurrent == 1..MaxConcurrent
Lifecycles == 1..MaxLifecycles

Payloads ==
    {<<"pass">>, <<"result", "=", "1">>, <<"result", "=", "{1}">>,
     <<"render", "ok">>, <<"render", "fails">>, <<"raise", "MemoryError">>,
     <<"def", "f():", "f()">>, <<"raise", "ValueError('boom')">>,
     <<"raise", "Exception('memory')">>,
     <<"raise", "RuntimeError('Dependency", "cycle')">>,
     <<"raise", "SystemExit">>, <<"not", "python">>}

Req(command, params) == PyDict([command |-> command, params |-> params])

\* the params values a peer sends with a command
ParamsValues ==
    {PyDict(<<>>), PyDict([extra |-> PyInt(1)]), PyList(<<PyInt(1)>>), PyNone}
      \cup {PyDict([code |-> PyStr(p)]) : p \in Payloads}
      \cup {PyDict([code |-> PyInt(5)])}

CommandValues ==
    RegisteredCommands \cup {PyStr(<<"frobnicate">>), PyInt(5), PyNone}

\* the JSON documents a peer sends: requests, and documents that are no request
PeerDocuments ==
    {Req(PyStr(<<"execute_code">>), p) : p \in ParamsValues}
      \cup {Req(c, p) : c \in CommandValues,
                        p \in {PyDict(<<>>), PyDict([extra |-> PyInt(1)]),
                               PyList(<<PyInt(1)>>), PyNone}}
      \cup {PyDict([command |-> c]) : c \in CommandValues}
      \cup {PyDict([params |-> PyDict(<<>>)]), PyDict(<<>>),
            PyInt(123), PyList(<<PyInt(1)>>), PyStr(<<"health_check">>)}

\* the byte sequences a peer sends
WireTexts ==
    {json_dumps(d) : d \in PeerDocuments}
      \cup {<<>>, <<BadUtf8>>, <<"{", BadUtf8, "}">>}

(***************************************************************************)
(* State                                                                   *)
(***************************************************************************)
VARIABLES
    running,        \* BlenderSocketServer.running
    server_socket,  \* BlenderSocketServer.server_socket: 0 (None) or a socket
    sockets,        \* each listening socket: "unused", "listening", "unbound", "closed"
    loops,          \* each _run_server thread: its position, the socket it accepts on
    conn,           \* each connection: the peer's side and its _handle_client thread
    hist,           \* what has happened on earlier connections
    cl,             \* the caller of BlenderSocketClient._send_command
    scene,          \* bpy.context.scene and the render payload that runs on it
    mcp,            \* a BlenderMCPClient and the coroutines of a call to it
    stream          \* a BlenderCameraStream node and its worker threads

vars == <<running, server_socket, sockets, loops, conn, hist, cl, scene, mcp, stream>>
listener == <<running, server_socket, sockets, loops>>
server == <<running, server_socket, sockets, loops, conn, cl>>
nodes == <<scene, mcp, stream>>

\* BlenderMCPClient.__init__: no session, and no call under way
NoClient ==
    [session |-> FALSE,    \* self.session is not None
     stack |-> <<>>,       \* the coroutines of the call, the awaited one last
     ret |-> [kind |-> "none", val |-> ""]]   \* what the coroutine that ended
                                              \* last returned or raised

Workers == 1..MaxWorkers

\* BlenderCameraStream.__init__: not streaming, no thread, no frame
NewStream ==
    [_streaming |-> FALSE,
     _stream_thread |-> 0,      \* 0 (None) or the thread started last
     _frame_count |-> 0,
     frame_count |-> 0,         \* parameter_output_values["frame_count"]
     pc |-> "idle",             \* process(): idle, or waiting in join
     workers |-> [w \in Workers |->
                    [pc |-> "unborn",           \* where the _stream_worker thread is
                     consecutive_errors |-> 0,
                     loaded |-> 0]]]            \* the value read by "+= 1"

\* the scene settings the render payload assigns, in the order it assigns them
Assigned ==
    <<"camera", "resolution_x", "resolution_y", "resolution_percentage", "engine",
      "render_aa", "viewport_aa", "use_motion_blur", "use_freestyle",
      "use_compositing", "use_sequencer", "file_format", "color_mode",
      "compression", "filepath">>

\* a scene as a user may have left it: any active camera or none, any engine,
\* the optional features on or off; has_aa: scene.display has render_aa and
\* viewport_aa; complex: more than 200 objects, 50 materials or 100 meshes
SceneOf(camera, engine, feature, has_aa, complex) ==
    [set |-> [camera |-> camera,
              resolution_x |-> 1280,
              resolution_y |-> 720,
              resolution_percentage |-> 50,
              engine |-> engine,
              render_aa |-> IF has_aa THEN "8" ELSE "absent",
              viewport_aa |-> IF has_aa THEN "FXAA" ELSE "absent",
              use_motion_blur |-> feature,
              use_freestyle |-> feature,
              use_compositing |-> feature,
              use_sequencer |-> feature,
              file_format |-> "JPEG",
              color_mode |-> "RGBA",
              compression |-> 15,
              filepath |-> "/tmp/"],
     cameras |-> {"Camera", "Side"},   \* the objects of type CAMERA in bpy.data.objects
     has_aa |-> has_aa,
     complex |-> complex,
     window |-> "scene",     \* bpy.context.window.scene: "scene" or "Griptape_Temp"
     pc |-> "idle",          \* where the payload is: idle, apply, render, restore, done
     original |-> <<>>,      \* the payload's original_* variables
     camera_name |-> "",
     width |-> 0,
     height |-> 0,
     step |-> 0,             \* how many of its assignments the payload has made
     result |-> PyNone]

InitNodes ==
    /\ scene = SceneOf(PyStr(<<"Camera">>), "BLENDER_EEVEE", TRUE, TRUE, FALSE)
    /\ mcp = NoClient
    /\ stream = NewStream

FreeConn ==
    [st |-> "free",      \* "free", "backlog" (connected, not accepted), "open"
     sk |-> 0,           \* the listening socket it connected to
     text |-> <<>>,      \* the bytes the peer is going to write
     off |-> 0,          \* how many of them it has written
     nsent |-> 0,        \* in how many pieces
     peerEof |-> FALSE,  \* the peer has shut down or closed its side
     pc |-> "none",      \* where the _handle_client thread is
     buffer |-> <<>>,    \* _handle_client's buffer
     bound |-> FALSE,    \* whether its local variable request is assigned
     request |-> PyNone,
     response |-> PyNone,
     wire |-> <<>>,      \* the bytes sendall has written to the socket
     wrEof |-> FALSE,    \* shutdown(SHUT_WR) has been done
     log |-> <<>>]       \* the steps the handler has taken

\* the bytes written by the peer and not yet read by the handler
InQ(c) == SubSeq(conn[c].text, Len(conn[c].buffer) + 1, conn[c].off)

\* the caller before it calls
IdleClient ==
    [pc |-> "idle",       \* where _send_command is
     attempt |-> 0,       \* the loop variable attempt
     request |-> PyNone,  \* the request map
     c |-> 0,             \* the connection of its socket, 0 when it has none
     chunks |-> <<>>,     \* response_chunks, joined
     nchunks |-> 0,       \* len(response_chunks)
     result |-> PyNone,   \* the value returned
     slept |-> 0,         \* the seconds spent in time.sleep
     trace |-> <<>>]      \* the socket operations, their failures and the sleeps of the call

InitServer ==
    /\ running = FALSE
    /\ server_socket = 0
    /\ sockets = [s \in Socks |-> "unused"]
    /\ loops = [s \in Socks |-> [pc |-> "unborn", sk |-> 0]]
    /\ conn = [c \in Conns |-> FreeConn]
    /\ hist = [faulted |-> FALSE]
    /\ cl = IdleClient
    /\ InitNodes

(***************************************************************************)
(* Listener/Acceptor: start, stop, _run_server                             *)
(***************************************************************************)
Unused == {s \in DOMAIN sockets : sockets[s] = "unused"}

\* hist keeps the calls that returned at once where hist has the field noops
NoOp(call) ==
    IF "noops" \in DOMAIN hist THEN [hist EXCEPT !.noops = @ \cup {call}] ELSE hist

\* start() without its test of running
start_Unguarded ==
    /\ Unused # {}
    /\ LET s == CHOOSE x \in Unused : \A y \in Unused : x <= y IN
         /\ sockets' = [sockets EXCEPT ![s] = "listening"]
         /\ server_socket' = s
         /\ running' = TRUE
         /\ loops' = [loops EXCEPT ![s] = [pc |-> "while", sk |-> 0]]
    /\ UNCHANGED <<conn, hist, cl, nodes>>

\* start(): a no-op while running; else a new socket is created, bound and
\* listened on and a new _run_server thread started, or bind fails
start ==
    IF running THEN hist' = NoOp("start") /\ UNCHANGED <<listener, conn, cl, nodes>>
    ELSE /\ Unused # {}
         /\ LET s == CHOOSE x \in Unused : \A y \in Unused : x <= y IN
            \E bound \in BOOLEAN :
              IF bound
              THEN /\ sockets' = [sockets EXCEPT ![s] = "listening"]
                   /\ server_socket' = s
                   /\ running' = TRUE
                   /\ loops' = [loops EXCEPT ![s] = [pc |-> "while", sk |-> 0]]
              ELSE /\ sockets' = [sockets EXCEPT ![s] = "unbound"]
                   /\ server_socket' = s
                   /\ running' = FALSE
                   /\ UNCHANGED loops
         /\ UNCHANGED <<conn, hist, cl, nodes>>

\* stop(): a no-op while not running; else the flag is cleared and the socket closed
stop ==
    IF ~running THEN hist' = NoOp("stop") /\ UNCHANGED <<listener, conn, cl, nodes>>
    ELSE /\ running' = FALSE
         /\ sockets' = IF server_socket # 0
                       THEN [sockets EXCEPT ![server_socket] = "closed"]
                       ELSE sockets
         /\ UNCHANGED <<server_socket, loops, conn, hist, cl, nodes>>

\* _run_server: "while self.running", then the call of accept() on self.server_socket
LoopWhile(t) ==
    /\ loops[t].pc = "while"
    /\ loops' = [loops EXCEPT ![t] =
                   IF running /\ server_socket # 0
                   THEN [pc |-> "accept", sk |-> server_socket]
                   ELSE [pc |-> "done", sk |-> 0]]
    /\ UNCHANGED <<running, server_socket, sockets, conn, hist, cl, nodes>>

\* hist keeps the order of the accepted connections where hist has the field accepted
Accepted(c) ==
    IF "accepted" \in DOMAIN hist THEN [hist EXCEPT !.accepted = Append(@, c)] ELSE hist

\* accept() that returns only once the handlers of the earlier connections are done
Accept_Serial(t, c) ==
    /\ loops[t].pc = "accept"
    /\ sockets[loops[t].sk] = "listening"
    /\ conn[c].st = "backlog"
    /\ conn[c].sk = loops[t].sk
    /\ \A d \in DOMAIN conn : conn[d].st = "open" => conn[d].pc = "done"
    /\ conn' = [conn EXCEPT ![c].st = "open", ![c].pc = "recv"]
    /\ loops' = [loops EXCEPT ![t].pc = "while"]
    /\ hist' = Accepted(c)
    /\ UNCHANGED <<running, server_socket, sockets, cl, nodes>>

\* accept() returns a connection; its _handle_client thread is started
Accept(t, c) ==
    /\ loops[t].pc = "accept"
    /\ sockets[loops[t].sk] = "listening"
    /\ conn[c].st = "backlog"
    /\ conn[c].sk = loops[t].sk
    /\ conn' = [conn EXCEPT ![c].st = "open", ![c].pc = "recv"]
    /\ loops' = [loops EXCEPT ![t].pc = "while"]
    /\ hist' = Accepted(c)
    /\ UNCHANGED <<running, server_socket, sockets, cl, nodes>>

\* what accept() raises: on a closed socket EBADF; on a listening socket the
\* connection was aborted in the backlog, or the process is out of descriptors
AcceptErrors == {"EBADF", "ECONNABORTED", "EMFILE"}

\* hist keeps how each loop ended where hist has the field ended
LoopEnded(t, e) ==
    IF "ended" \in DOMAIN hist
    THEN [hist EXCEPT !.ended[t] = [err |-> e, reported |-> running]]
    ELSE hist

\* accept() raises: "if self.running: logger.error(...)", then the loop breaks
AcceptError(t) ==
    /\ loops[t].pc = "accept"
    /\ \E e \in AcceptErrors :
         /\ (e = "EBADF") <=> (sockets[loops[t].sk] # "listening")
         /\ hist' = LoopEnded(t, e)
    /\ loops' = [loops EXCEPT ![t] = [pc |-> "done", sk |-> 0]]
    /\ UNCHANGED <<running, server_socket, sockets, conn, cl, nodes>>

(***************************************************************************)
(* The peers of the server: they connect, write bytes, close                *)
(***************************************************************************)
Listening == {s \in DOMAIN sockets : sockets[s] = "listening"}

\* a peer connects to the listening socket, with the bytes it is going to write
PeerConnect(c, text) ==
    /\ conn[c].st = "free"
    /\ Listening # {}
    /\ \E s \in Listening :
         conn' = [conn EXCEPT ![c] = [FreeConn EXCEPT !.st = "backlog", !.sk = s,
                                                      !.text = text]]
    /\ UNCHANGED <<listener, hist, cl, nodes>>

\* the peer writes its next n bytes; its last piece is all the rest
PeerSend(c, n) ==
    /\ conn[c].st = "open"
    /\ ~conn[c].peerEof
    /\ conn[c].nsent < MaxChunks
    /\ n \in 1..(Len(conn[c].text) - conn[c].off)
    /\ conn[c].nsent = MaxChunks - 1 => n = Len(conn[c].text) - conn[c].off
    /\ conn' = [conn EXCEPT ![c].off = @ + n, ![c].nsent = @ + 1]
    /\ UNCHANGED <<listener, hist, cl, nodes>>

\* the peer shuts down or closes its side: the server reads end-of-stream.
\* (Once the handler has left its receive loop it reads no more, and a closed
\* peer shows only as a sendall that raises, which Send chooses freely.)
PeerClose(c) ==
    /\ conn[c].st = "open"
    /\ conn[c].pc = "recv"
    /\ ~conn[c].peerEof
    /\ conn' = [conn EXCEPT ![c].peerEof = TRUE]
    /\ UNCHANGED <<listener, hist, cl, nodes>>

\* the connection is over on both sides (or was reset in the backlog of a
\* closed socket): its slot is free for the next connection
PeerGone(c) ==
    /\ cl.c # c
    /\ \/ conn[c].st = "open" /\ conn[c].pc = "done"
       \/ conn[c].st = "backlog" /\ sockets[conn[c].sk] # "listening"
       \/ conn[c].st = "foreign"
    /\ conn' = [conn EXCEPT ![c] = FreeConn]
    /\ UNCHANGED <<listener, hist, cl, nodes>>

(***************************************************************************)
(* Connection Handler: _handle_client                                      *)
(***************************************************************************)
Logged(c, ev) ==
    IF conn[c].log # <<>> /\ conn[c].log[Len(conn[c].log)] = ev
    THEN conn[c].log ELSE Append(conn[c].log, ev)

\* after the receive loop: "if not buffer: return", else on to the request
AfterReceive(buffer) == IF buffer = <<>> THEN "close" ELSE "process"

\* a variant that parses only once the peer has written its whole message
Recv_WholeMessage(c) ==
    /\ conn[c].pc = "recv"
    /\ InQ(c) # <<>>
    /\ LET buffer == conn[c].buffer \o InQ(c)
           parsed == IF Utf8Ok(buffer) /\ buffer = conn[c].text THEN json_loads(buffer)
                     ELSE [ok |-> FALSE, val |-> PyNone]
       IN conn' = [conn EXCEPT ![c].buffer = buffer,
                               ![c].bound = parsed.ok,
                               ![c].request = parsed.val,
                               ![c].log = Logged(c, "receive"),
                               ![c].pc = IF parsed.ok THEN AfterReceive(buffer)
                                         ELSE "recv"]
    /\ UNCHANGED <<listener, hist, cl, nodes>>

\* recv(1024) returns a chunk; the buffer so far is decoded and parsed
Recv(c) ==
    /\ conn[c].pc = "recv"
    /\ InQ(c) # <<>>
    /\ LET buffer == conn[c].buffer \o InQ(c)
           parsed == IF Utf8Ok(buffer) THEN json_loads(buffer)
                     ELSE [ok |-> FALSE, val |-> PyNone]
       IN conn' = [conn EXCEPT ![c].buffer = buffer,
                               ![c].bound = parsed.ok,
                               ![c].request = parsed.val,
                               ![c].log = Logged(c, "receive"),
                               ![c].pc = IF parsed.ok THEN AfterReceive(buffer)
                                         ELSE "recv"]
    /\ UNCHANGED <<listener, hist, cl, nodes>>

\* hist keeps the connections on which more bytes of an endless stream wait
\* to be read where hist has the field pending
Pending(c) == "pending" \in DOMAIN hist /\ c \in hist.pending

\* a peer that has written only whitespace writes one more byte of it, and
\* can do so for ever
PeerDrip(c) ==
    /\ conn[c].st = "open"
    /\ conn[c].pc = "recv"
    /\ ~conn[c].peerEof
    /\ conn[c].text # <<>>
    /\ conn[c].off = Len(conn[c].text)
    /\ \A i \in DOMAIN conn[c].text : conn[c].text[i] = Space
    /\ "pending" \in DOMAIN hist
    /\ c \notin hist.pending
    /\ hist' = [hist EXCEPT !.pending = @ \cup {c}]
    /\ UNCHANGED <<listener, conn, cl, nodes>>

\* recv(1024) returns the next byte of the endless whitespace: the buffer, all
\* whitespace, is no document with it either, and the loop continues.  (The
\* buffer grows; the model keeps its first bytes only.)
RecvMore(c) ==
    /\ conn[c].pc = "recv"
    /\ InQ(c) = <<>>
    /\ Pending(c)
    /\ conn[c].buffer # <<>>
    /\ hist' = [hist EXCEPT !.pending = @ \ {c}]
    /\ conn' = [conn EXCEPT ![c].log = Logged(c, "receive")]
    /\ UNCHANGED <<listener, cl, nodes>>

\* recv returns b'' (end of stream), or raises socket.timeout or another error
RecvBreak(c, why) ==
    /\ conn[c].pc = "recv"
    /\ InQ(c) = <<>>
    /\ ~Pending(c)
    /\ why = "eof" => conn[c].peerEof
    /\ why = "timeout" => ~conn[c].peerEof
    /\ conn' = [conn EXCEPT ![c].log = Logged(c, "receive"),
                            ![c].pc = AfterReceive(conn[c].buffer)]
    /\ UNCHANGED <<listener, hist, cl, nodes>>

\* the dispatch as it would be if request were bound before the receive loop
ProcessOutcome_RequestPreset(c, host) ==
    LET r == _process_request(conn[c].request, host)
    IN IF r.raised /\ IsException(r.exc)
       THEN Return(ErrorResult(<<"Processing", "failed:">> \o r.exc.msg))
       ELSE r

\* self._process_request(request) inside "try ... except Exception"
ProcessOutcome(c, host) ==
    LET r == IF conn[c].bound THEN _process_request(conn[c].request, host)
             ELSE Raise(Exc("UnboundLocalError",
                            <<"cannot", "access", "local", "variable", "request">>))
    IN IF r.raised /\ IsException(r.exc)
       THEN Return(ErrorResult(<<"Processing", "failed:">> \o r.exc.msg))
       ELSE r

\* whether the dispatch of the request ran into a fault of a command handler
HandlerFaulted(c, host) ==
    LET r == ProcessOutcome(c, host) IN
    \/ r.raised
    \/ dict_get(r.val, "success", PyNone) # PyBool(TRUE)

\* hist keeps the handler threads that are inside self._process_request
\* where hist has the field inside
InsideNow(c) == "inside" \in DOMAIN hist => c \in hist.inside

Leave(c, h) == IF "inside" \in DOMAIN h THEN [h EXCEPT !.inside = @ \ {c}] ELSE h

\* a variant in which one lock is held around self._process_request
Enter_Locked(c) ==
    /\ conn[c].pc = "process"
    /\ "inside" \in DOMAIN hist
    /\ hist.inside = {}
    /\ hist' = [hist EXCEPT !.inside = @ \cup {c}]
    /\ UNCHANGED <<listener, conn, cl, nodes>>

\* the handler thread calls self._process_request(request)
Enter(c) ==
    /\ conn[c].pc = "process"
    /\ "inside" \in DOMAIN hist
    /\ c \notin hist.inside
    /\ hist' = [hist EXCEPT !.inside = @ \cup {c}]
    /\ UNCHANGED <<listener, conn, cl, nodes>>

\* a variant in which a fault of a command handler stops the server
Process_FaultStops(c) ==
    /\ conn[c].pc = "process"
    /\ InsideNow(c)
    /\ \E host \in Hosts :
         LET r == ProcessOutcome(c, host) IN
         /\ conn' = [conn EXCEPT ![c].response = r.val,
                                 ![c].log = Append(@, "dispatch"),
                                 ![c].pc = IF r.raised THEN "close" ELSE "send"]
         /\ hist' = Leave(c, [hist EXCEPT !.faulted = @ \/ HandlerFaulted(c, host)])
         /\ running' = (running /\ ~HandlerFaulted(c, host))
    /\ UNCHANGED <<server_socket, sockets, loops, cl, nodes>>

\* a variant in which the handlers share one request variable
Process_SharedRequest(c) ==
    /\ conn[c].pc = "process"
    /\ InsideNow(c)
    /\ \E host \in Hosts :
         LET r == ProcessOutcome(1, host) IN
         /\ conn' = [conn EXCEPT ![c].response = r.val,
                                 ![c].log = Append(@, "dispatch"),
                                 ![c].pc = IF r.raised THEN "close" ELSE "send"]
         /\ hist' = Leave(c, [hist EXCEPT !.faulted = @ \/ HandlerFaulted(1, host)])
    /\ UNCHANGED <<listener, cl, nodes>>

\* the request is dispatched: self._process_request(request), and a fault of
\* it is made the response
Process(c) ==
    /\ conn[c].pc = "process"
    /\ InsideNow(c)
    /\ \E host \in Hosts :
         LET r == ProcessOutcome(c, host) IN
         /\ conn' = [conn EXCEPT ![c].response = r.val,
                                 ![c].log = Append(@, "dispatch"),
                                 ![c].pc = IF r.raised THEN "close" ELSE "send"]
         /\ hist' = Leave(c, [hist EXCEPT !.faulted = @ \/ HandlerFaulted(c, host)])
    /\ UNCHANGED <<listener, cl, nodes>>

\* a variant that half-closes after a failed write too
AfterSend_AlwaysHalfClose(written) == "shutdown"

\* after sendall: shutdown(SHUT_WR) when it returned, "except Exception" and
\* on to the finally clause when it raised
AfterSend(written) == IF written THEN "shutdown" ELSE "close"

\* json.dumps(response) and sendall(response_bytes): all bytes are written, or
\* sendall raises after some of them
Send(c) ==
    /\ conn[c].pc = "send"
    /\ IF ~IsEncodable(conn[c].response)
       THEN conn' = [conn EXCEPT ![c].pc = "close"]
       ELSE LET bytes == json_dumps(conn[c].response) IN
            \/ conn' = [conn EXCEPT ![c].wire = bytes,
                                    ![c].log = Append(@, "send"),
                                    ![c].pc = AfterSend(TRUE)]
            \/ \E n \in 0..MaxCut :
                 /\ n < Len(bytes)
                 /\ conn' = [conn EXCEPT ![c].wire = SubSeq(bytes, 1, n),
                                         ![c].log = Append(@, "send"),
                                         ![c].pc = AfterSend(FALSE)]
    /\ UNCHANGED <<listener, hist, cl, nodes>>

\* a variant that keeps the connection and reads the next request from it
Shutdown_KeepAlive(c) ==
    /\ conn[c].pc = "shutdown"
    /\ conn' = [conn EXCEPT ![c].log = Append(@, "half_close"),
                            ![c].pc = "recv"]
    /\ UNCHANGED <<listener, hist, cl, nodes>>

\* client_socket.shutdown(socket.SHUT_WR): the peer reads end-of-stream, or it raises
Shutdown(c) ==
    /\ conn[c].pc = "shutdown"
    /\ \E ok \in BOOLEAN :
         conn' = [conn EXCEPT ![c].wrEof = ok,
                              ![c].log = Append(@, "half_close"),
                              ![c].pc = "close"]
    /\ UNCHANGED <<listener, hist, cl, nodes>>

\* finally: client_socket.close()
Close(c) ==
    /\ conn[c].pc = "close"
    /\ conn' = [conn EXCEPT ![c].log = Append(@, "close"), ![c].pc = "done"]
    /\ UNCHANGED <<listener, hist, cl, nodes>>

(***************************************************************************)
(* Retry Controller and Request Session: BlenderSocketClient._send_command *)
(***************************************************************************)
max_retries == 3
retry_delay == 1

\* the code the caller hands to execute_code
ClientPayloads ==
    {<<"result", "=", "1">>, <<"result", "=", "{1}">>, <<"raise", "SystemExit">>}

\* bool(x) is False
Falsy(x) ==
    x \in {PyNone, PyBool(FALSE), PyInt(0), PyStr(<<>>), PyList(<<>>), PyDict(<<>>)}

\* the request map of _send_command(command, params): "params or {}"
request_of(command, params) ==
    PyDict([command |-> PyStr(<<command>>),
            params |-> IF Falsy(params) THEN PyDict(<<>>) ELSE params])

\* the calls the public methods make: health_check, get_scene_info and
\* execute_code(code); list_cameras and render_camera go the same way
ClientCalls ==
    {request_of(c, PyNone) : c \in {"health_check", "get_scene_info"}}
      \cup {request_of("execute_code", PyDict([code |-> PyStr(p)])) : p \in ClientPayloads}

\* what something else that listens on the port may answer
ForeignReplies ==
    {<<>>, <<Space>>, <<BadUtf8>>, <<"{", Quote, "success", Quote>>,
     <<"1", "2", "3">>, json_dumps(ErrorResult(<<"busy">>))}

\* the errors of socket.socket(), connect, sendall and recv, by class
SocketErrors == {"TimeoutError", "ConnectionRefusedError", "BrokenPipeError",
                 "ConnectionResetError", "OSError"}

ClientError(msg) == ErrorResult(msg)

Returned(result) ==
    [cl EXCEPT !.pc = "returned", !.result = result, !.c = 0,
               !.trace = IF cl.c # 0 THEN Append(@, "close") ELSE @]

\* a variant that catches the errors of the socket only
OuterExcept_OSErrorOnly(e) ==
    IF e.cls \notin SocketErrors
    THEN [cl EXCEPT !.pc = "raised", !.c = 0,
                    !.trace = IF cl.c # 0 THEN Append(@, "close") ELSE @]
    ELSE IF cl.attempt = max_retries - 1
    THEN Returned(ClientError(<<"Unexpected", "error:">> \o e.msg))
    ELSE [cl EXCEPT !.pc = "sleep", !.c = 0,
                    !.trace = IF cl.c # 0 THEN Append(@, "close") ELSE @]

\* "except Exception as e" around an attempt: the last attempt returns an
\* error, an earlier one sleeps and goes round the loop
OuterExcept(e) ==
    IF ~IsException(e)
    THEN [cl EXCEPT !.pc = "raised", !.c = 0,
                    !.trace = IF cl.c # 0 THEN Append(@, "close") ELSE @]
    ELSE IF cl.attempt = max_retries - 1
    THEN Returned(ClientError(<<"Unexpected", "error:">> \o e.msg))
    ELSE [cl EXCEPT !.pc = "sleep", !.c = 0,
                    !.trace = IF cl.c # 0 THEN Append(@, "close") ELSE @]

\* the client's socket on connection c is closed: the server reads end-of-stream
ClientClosed(cn, c) == IF c = 0 THEN cn ELSE [cn EXCEPT ![c].peerEof = TRUE]

\* _send_command(command, params) is called
Call(request) ==
    /\ cl.pc = "idle"
    /\ cl' = [cl EXCEPT !.pc = "attempt", !.attempt = 0, !.request = request]
    /\ UNCHANGED <<listener, conn, hist, nodes>>

\* socket.socket() raises
SocketFails ==
    /\ cl.pc = "attempt"
    /\ cl' = [OuterExcept(Exc("OSError", <<"Too", "many", "open", "files">>))
                EXCEPT !.trace = Append(cl.trace, "socket_error") \o SubSeq(@, Len(cl.trace) + 1, Len(@))]
    /\ UNCHANGED <<listener, conn, hist, nodes>>

\* sock.connect() succeeds: to the server's listening socket, or to something
\* else that listens on the port while the server does not
Connect(c) ==
    /\ cl.pc = "attempt"
    /\ conn[c].st = "free"
    /\ \/ \E s \in Listening :
            conn' = [conn EXCEPT ![c] = [FreeConn EXCEPT !.st = "backlog", !.sk = s]]
       \/ /\ Listening = {}
          /\ \E reply \in ForeignReplies :
               conn' = [conn EXCEPT ![c] = [FreeConn EXCEPT !.st = "foreign",
                                                            !.wire = reply,
                                                            !.pc = "done"]]
    /\ cl' = [cl EXCEPT !.pc = "send", !.c = c, !.chunks = <<>>, !.nchunks = 0,
                        !.trace = @ \o <<"socket", "connect">>]
    /\ UNCHANGED <<listener, hist, nodes>>

\* a variant that takes the last attempt to be the one after the last
ConnectFails_OneMore(cls) ==
    /\ cl.pc = "attempt"
    /\ cls \in {"TimeoutError", "ConnectionRefusedError", "OSError"}
    /\ cls = "ConnectionRefusedError" => Listening = {}
    /\ cl' = IF cl.attempt = max_retries
             THEN [cl EXCEPT !.pc = "returned",
                             !.result = ClientError(<<"Cannot", "connect", "to", "Blender",
                                                      "server.", "Error:", cls>>),
                             !.trace = @ \o <<"socket", "refused", "close">>]
             ELSE [cl EXCEPT !.pc = "sleep",
                             !.trace = @ \o <<"socket", "refused", "close">>]
    /\ UNCHANGED <<listener, conn, hist, nodes>>

\* a variant that leaves the socket of a failed connect open
ConnectFails_Leak(cls) ==
    /\ cl.pc = "attempt"
    /\ cls \in {"TimeoutError", "ConnectionRefusedError", "OSError"}
    /\ cls = "ConnectionRefusedError" => Listening = {}
    /\ cl' = IF cl.attempt = max_retries - 1
             THEN [cl EXCEPT !.pc = "returned",
                             !.result = ClientError(<<"Cannot", "connect", "to", "Blender",
                                                      "server.", "Error:", cls>>),
                             !.trace = @ \o <<"socket", "refused">>]
             ELSE [cl EXCEPT !.pc = "sleep",
                             !.trace = @ \o <<"socket", "refused">>]
    /\ UNCHANGED <<listener, conn, hist, nodes>>

\* sock.connect() raises socket.timeout, ConnectionRefusedError or OSError
ConnectFails(cls) ==
    /\ cl.pc = "attempt"
    /\ cls \in {"TimeoutError", "ConnectionRefusedError", "OSError"}
    /\ cls = "ConnectionRefusedError" => Listening = {}
    /\ cl' = IF cl.attempt = max_retries - 1
             THEN [cl EXCEPT !.pc = "returned",
                             !.result = ClientError(<<"Cannot", "connect", "to", "Blender",
                                                      "server.", "Error:", cls>>),
                             !.trace = @ \o <<"socket", "refused", "close">>]
             ELSE [cl EXCEPT !.pc = "sleep",
                             !.trace = @ \o <<"socket", "refused", "close">>]
    /\ UNCHANGED <<listener, conn, hist, nodes>>

\* a variant whose delay grows with the attempt
Sleep_Backoff ==
    /\ cl.pc = "sleep"
    /\ cl' = [cl EXCEPT !.pc = "attempt", !.attempt = @ + 1,
                        !.slept = @ + retry_delay * (cl.attempt + 1),
                        !.trace = Append(@, "sleep")]
    /\ UNCHANGED <<listener, conn, hist, nodes>>

\* time.sleep(retry_delay), and the next attempt
Sleep ==
    /\ cl.pc = "sleep"
    /\ cl' = [cl EXCEPT !.pc = "attempt", !.attempt = @ + 1,
                        !.slept = @ + retry_delay,
                        !.trace = Append(@, "sleep")]
    /\ UNCHANGED <<listener, conn, hist, nodes>>

\* sock.sendall(json.dumps(request).encode('utf-8')): all bytes are written,
\* or it raises after some of them
SendAll(cls) ==
    /\ cl.pc = "send"
    /\ LET bytes == json_dumps(cl.request)
           c == cl.c
           listed == cls \in {"TimeoutError", "BrokenPipeError", "ConnectionResetError"}
           sent == [cl EXCEPT !.trace = Append(@, "sendall")]
       IN IF cls = "ok"
          THEN /\ cl' = [sent EXCEPT !.pc = "recv"]
               /\ conn' = [conn EXCEPT ![c].text = bytes, ![c].off = Len(bytes)]
          ELSE /\ cls \in SocketErrors
               /\ \E n \in 0..MaxCut :
                    /\ n < Len(bytes)
                    /\ LET cn == [conn EXCEPT ![c].text = SubSeq(bytes, 1, n), ![c].off = n]
                           broken == [sent EXCEPT
                                        !.trace = @ \o <<IF listed THEN "send_failed"
                                                         ELSE "send_error", "close">>,
                                        !.c = 0]
                       IN /\ conn' = ClientClosed(cn, c)
                          /\ cl' = IF listed
                                   THEN [broken EXCEPT
                                           !.pc = "returned",
                                           !.result = ClientError(<<"Failed", "to", "send",
                                                                    "command:", cls>>)]
                                   ELSE IF cl.attempt = max_retries - 1
                                   THEN [broken EXCEPT
                                           !.pc = "returned",
                                           !.result = ClientError(<<"Unexpected", "error:", cls>>)]
                                   ELSE [broken EXCEPT !.pc = "sleep"]
    /\ UNCHANGED <<listener, hist, nodes>>

\* the bytes written to the client's socket by the other side
Incoming == IF cl.c = 0 THEN <<>> ELSE conn[cl.c].wire
\* those of them the client has not read
Unread == SubSeq(Incoming, Len(cl.chunks) + 1, Len(Incoming))
\* the server has shut down its writing side or closed the socket
ServerEof == conn[cl.c].wrEof \/ conn[cl.c].pc = "done"

\* a variant that parses after every chunk and returns as soon as the
\* bytes read so far are a document
RecvChunk_ParseEach(n) ==
    /\ cl.pc = "recv"
    /\ n \in 1..Len(Unread)
    /\ n <= MaxCut \/ n = Len(Unread)
    /\ cl.nchunks = MaxChunks - 1 => n = Len(Unread)
    /\ cl.nchunks < MaxChunks
    /\ LET chunks == cl.chunks \o SubSeq(Unread, 1, n) IN
       IF Utf8Ok(chunks) /\ json_loads(chunks).ok
       THEN /\ cl' = [Returned(json_loads(chunks).val) EXCEPT
                       !.chunks = chunks, !.nchunks = @ + 1,
                       !.trace = cl.trace \o <<"parse", "close">>]
            /\ conn' = ClientClosed(conn, cl.c)
       ELSE /\ cl' = [cl EXCEPT !.chunks = chunks, !.nchunks = @ + 1]
            /\ UNCHANGED conn
    /\ UNCHANGED <<listener, hist, nodes>>

\* sock.recv(8192) returns a chunk
RecvChunk(n) ==
    /\ cl.pc = "recv"
    /\ n \in 1..Len(Unread)
    /\ n <= MaxCut \/ n = Len(Unread)
    /\ cl.nchunks = MaxChunks - 1 => n = Len(Unread)
    /\ cl.nchunks < MaxChunks
    /\ cl' = [cl EXCEPT !.chunks = @ \o SubSeq(Unread, 1, n), !.nchunks = @ + 1]
    /\ UNCHANGED <<listener, conn, hist, nodes>>

\* a variant without the two checks for an empty response
Decode_NoEmptyCheck(chunks, nchunks) ==
    IF ~Utf8Ok(chunks)
    THEN Raise(Exc("UnicodeDecodeError", <<"invalid", "start", "byte">>))
    ELSE IF json_loads(chunks).ok
    THEN Return(json_loads(chunks).val)
    ELSE Return(ClientError(<<"Invalid", "JSON", "response", "from", "server.">>))

\* a variant that takes a response without success for a failed attempt
Decode_RetryUnsuccessful(chunks, nchunks) ==
    IF nchunks = 0
    THEN Return(ClientError(<<"Empty", "response", "from", "server">>))
    ELSE IF ~Utf8Ok(chunks)
    THEN Raise(Exc("UnicodeDecodeError", <<"invalid", "start", "byte">>))
    ELSE IF SelectSeq(chunks, LAMBDA t : t # Space) = <<>>
    THEN Return(ClientError(<<"Empty", "response", "from", "Blender", "server">>))
    ELSE IF json_loads(chunks).ok
    THEN IF \/ Ty(json_loads(chunks).val) # "dict"
            \/ dict_get(json_loads(chunks).val, "success", PyNone) = PyBool(TRUE)
         THEN Return(json_loads(chunks).val)
         ELSE Raise(Exc("RuntimeError", <<"command", "failed">>))
    ELSE Return(ClientError(<<"Invalid", "JSON", "response", "from", "server.">>))

\* b''.join(response_chunks).decode('utf-8'), strip and json.loads, after the
\* zero-length read
Decode(chunks, nchunks) ==
    IF nchunks = 0
    THEN Return(ClientError(<<"Empty", "response", "from", "server">>))
    ELSE IF ~Utf8Ok(chunks)
    THEN Raise(Exc("UnicodeDecodeError", <<"invalid", "start", "byte">>))
    ELSE IF SelectSeq(chunks, LAMBDA t : t # Space) = <<>>
    THEN Return(ClientError(<<"Empty", "response", "from", "Blender", "server">>))
    ELSE IF json_loads(chunks).ok
    THEN Return(json_loads(chunks).val)
    ELSE Return(ClientError(<<"Invalid", "JSON", "response", "from", "server.">>))

\* what the steps after the zero-length read are: the decode that fails, the
\* call of json.loads and the JSONDecodeError it raises
DecodeEvents(chunks, nchunks) ==
    IF nchunks = 0 THEN <<"eof">>
    ELSE IF ~Utf8Ok(chunks) THEN <<"eof", "decode_failed">>
    ELSE IF SelectSeq(chunks, LAMBDA t : t # Space) = <<>> THEN <<"eof">>
    ELSE IF json_loads(chunks).ok THEN <<"eof", "parse">>
    ELSE <<"eof", "parse", "invalid_json">>

\* the attempt ends inside the with-block after these events of its socket,
\* and the socket is closed on the way out
Ended(outcome, events) ==
    [outcome EXCEPT !.trace = cl.trace \o events \o <<"close">>]

\* sock.recv(8192) returns b'': the loop ends and the response is decoded
RecvEof ==
    /\ cl.pc = "recv"
    /\ Unread = <<>>
    /\ ServerEof
    /\ LET r == Decode(cl.chunks, cl.nchunks) IN
       cl' = Ended(IF r.raised THEN OuterExcept(r.exc) ELSE Returned(r.val),
                   DecodeEvents(cl.chunks, cl.nchunks))
    /\ conn' = ClientClosed(conn, cl.c)
    /\ UNCHANGED <<listener, hist, nodes>>

\* a variant that treats every error of recv as the outer handler does
RecvFails_RetryAll(cls) ==
    /\ cl.pc = "recv"
    /\ cls \in SocketErrors \ {"ConnectionRefusedError"}
    /\ cls = "TimeoutError" => Unread = <<>> /\ ~ServerEof
    /\ cl' = Ended(OuterExcept(Exc(cls, <<cls>>)),
                   <<CASE cls = "TimeoutError" -> "recv_timeout"
                       [] cls \in {"ConnectionResetError", "BrokenPipeError"} -> "recv_lost"
                       [] OTHER -> "recv_error">>)
    /\ conn' = ClientClosed(conn, cl.c)
    /\ UNCHANGED <<listener, hist, nodes>>

\* a variant whose socket has no timeout: recv blocks until bytes or an error come
RecvFails_NoTimeout(cls) ==
    /\ cl.pc = "recv"
    /\ cls \in SocketErrors \ {"ConnectionRefusedError"}
    /\ cls # "TimeoutError"
    /\ cl' = CASE cls = "TimeoutError" ->
                    Ended(Returned(ClientError(<<"Command", "timed", "out", "after",
                                                 "timeout", "seconds">>)),
                          <<"recv_timeout">>)
               [] cls \in {"ConnectionResetError", "BrokenPipeError"} ->
                    Ended(Returned(ClientError(<<"Connection", "lost", "during", "command",
                                                 "execution:", cls>>)),
                          <<"recv_lost">>)
               [] OTHER -> Ended(OuterExcept(Exc(cls, <<cls>>)), <<"recv_error">>)
    /\ conn' = ClientClosed(conn, cl.c)
    /\ UNCHANGED <<listener, hist, nodes>>

\* sock.recv(8192) raises: the command timeout expires with nothing to read,
\* the connection is reset, or another error of the socket
RecvFails(cls) ==
    /\ cl.pc = "recv"
    /\ cls \in SocketErrors \ {"ConnectionRefusedError"}
    /\ cls = "TimeoutError" => Unread = <<>> /\ ~ServerEof
    /\ cl' = CASE cls = "TimeoutError" ->
                    Ended(Returned(ClientError(<<"Command", "timed", "out", "after",
                                                 "timeout", "seconds">>)),
                          <<"recv_timeout">>)
               [] cls \in {"ConnectionResetError", "BrokenPipeError"} ->
                    Ended(Returned(ClientError(<<"Connection", "lost", "during", "command",
                                                 "execution:", cls>>)),
                          <<"recv_lost">>)
               [] OTHER -> Ended(OuterExcept(Exc(cls, <<cls>>)), <<"recv_error">>)
    /\ conn' = ClientClosed(conn, cl.c)
    /\ UNCHANGED <<listener, hist, nodes>>

Init == InitServer

Next ==
    \/ start
    \/ stop
    \/ \E t \in Socks : LoopWhile(t) \/ AcceptError(t) \/ \E c \in Conns : Accept(t, c)
    \/ \E c \in Conns, text \in WireTexts : PeerConnect(c, text)
    \/ \E c \in Conns : \E n \in 1..Len(conn[c].text) : PeerSend(c, n)
    \/ \E c \in Conns : PeerClose(c) \/ PeerGone(c)
    \/ \E c \in Conns : Recv(c) \/ Process(c) \/ Send(c) \/ Shutdown(c) \/ Close(c)
    \/ \E c \in Conns, why \in {"eof", "timeout", "error"} : RecvBreak(c, why)

Spec == Init /\ [][Next]_vars

\* the client, the server it calls, and no other peer
NextClient ==
    \/ start
    \/ stop
    \/ \E t \in Socks : LoopWhile(t) \/ AcceptError(t) \/ \E c \in Conns : Accept(t, c)
    \/ \E c \in Conns : PeerGone(c)
    \/ \E c \in Conns : Recv(c) \/ Process(c) \/ Send(c) \/ Shutdown(c) \/ Close(c)
    \/ \E c \in Conns, why \in {"eof", "timeout", "error"} : RecvBreak(c, why)
    \/ \E request \in ClientCalls : Call(request)
    \/ SocketFails
    \/ \E c \in Conns : Connect(c)
    \/ \E cls \in SocketErrors : ConnectFails(cls)
    \/ Sleep
    \/ \E cls \in SocketErrors \cup {"ok"} : SendAll(cls)
    \/ \E n \in 1..Len(Incoming) : RecvChunk(n)
    \/ RecvEof
    \/ \E cls \in SocketErrors : RecvFails(cls)

SpecClient == Init /\ [][NextClient]_vars

\* the requests of the peers that are connected at the same time
ConcurrentTexts ==
    {json_dumps(Req(PyStr(<<c>>), PyDict(<<>>))) : c \in {"health_check", "frobnicate"}}
      \cup {json_dumps(Req(PyStr(<<"execute_code">>), PyDict([code |-> PyStr(p)]))) :
               p \in {<<"result", "=", "1">>}}

InitConcurrent ==
    /\ running = FALSE
    /\ server_socket = 0
    /\ sockets = [s \in Socks |-> "unused"]
    /\ loops = [s \in Socks |-> [pc |-> "unborn", sk |-> 0]]
    /\ conn = [c \in Concurrent |-> FreeConn]
    /\ hist = [faulted |-> FALSE, accepted |-> <<>>, inside |-> {}]
    /\ cl = IdleClient
    /\ InitNodes

\* one running server, its accept loop, and several connections whose
\* _handle_client threads run side by side
NextConcurrent ==
    \/ start
    \/ \E t \in Socks : LoopWhile(t) \/ \E c \in Concurrent : Accept(t, c)
    \/ \E c \in Concurrent, text \in ConcurrentTexts : PeerConnect(c, text)
    \/ \E c \in Concurrent : \E n \in {MaxCut, Len(conn[c].text) - conn[c].off} : PeerSend(c, n)
    \/ \E c \in Concurrent : PeerClose(c)
    \/ \E c \in Concurrent : Recv(c) \/ Enter(c) \/ Process(c) \/ Send(c) \/ Shutdown(c) \/ Close(c)
    \/ \E c \in Concurrent, why \in {"eof", "timeout"} : RecvBreak(c, why)

SpecConcurrent == InitConcurrent /\ [][NextConcurrent]_vars

InitLive ==
    /\ running = FALSE
    /\ server_socket = 0
    /\ sockets = [s \in Socks |-> "unused"]
    /\ loops = [s \in Socks |-> [pc |-> "unborn", sk |-> 0]]
    /\ conn = [c \in Conns |-> FreeConn]
    /\ hist = [faulted |-> FALSE, pending |-> {}]
    /\ cl = IdleClient
    /\ InitNodes

\* the steps of the _handle_client thread of c
HandlerStep(c) ==
    \/ Recv(c)
    \/ RecvMore(c)
    \/ \E why \in {"eof", "timeout", "error"} : RecvBreak(c, why)
    \/ Process(c)
    \/ Send(c)
    \/ Shutdown(c)
    \/ Close(c)

NextLive ==
    \/ start
    \/ \E t \in Socks : LoopWhile(t) \/ \E c \in Conns : Accept(t, c)
    \/ \E c \in Conns,
            text \in {json_dumps(Req(PyStr(<<"health_check">>), PyDict(<<>>))),
                      <<"{">>, <<Space>>, <<>>} : PeerConnect(c, text)
    \/ \E c \in Conns : PeerSend(c, Len(conn[c].text) - conn[c].off)
    \/ \E c \in Conns : PeerDrip(c) \/ PeerClose(c) \/ PeerGone(c)
    \/ \E c \in Conns : HandlerStep(c)

\* a handler thread that can take a step takes one: recv returns when bytes
\* or the end of the stream are there and raises socket.timeout when nothing
\* comes for 5 seconds
SpecLive ==
    InitLive /\ [][NextLive]_vars /\ \A c \in Conns : WF_vars(HandlerStep(c))

\* the request of the peers of a listener that is stopped and started again
ListenerTexts == {json_dumps(Req(PyStr(<<"health_check">>), PyDict(<<>>)))}

\* no loop has ended by an error of accept()
NotEnded == [err |-> "none", reported |-> FALSE]

InitListener ==
    /\ running = FALSE
    /\ server_socket = 0
    /\ sockets = [s \in Lifecycles |-> "unused"]
    /\ loops = [s \in Lifecycles |-> [pc |-> "unborn", sk |-> 0]]
    /\ conn = [c \in Conns |-> FreeConn]
    /\ hist = [faulted |-> FALSE, noops |-> {}, ended |-> [s \in Lifecycles |-> NotEnded]]
    /\ cl = IdleClient
    /\ InitNodes

\* a server that is started, stopped and started again while its accept loops
\* and the handlers of its connections run
NextListener ==
    \/ start
    \/ stop
    \/ \E t \in Lifecycles : LoopWhile(t) \/ AcceptError(t) \/ \E c \in Conns : Accept(t, c)
    \/ \E c \in Conns, text \in ListenerTexts : PeerConnect(c, text)
    \/ \E c \in Conns : PeerSend(c, Len(conn[c].text) - conn[c].off)
    \/ \E c \in Conns : PeerClose(c) \/ PeerGone(c)
    \/ \E c \in Conns : Recv(c) \/ Process(c) \/ Send(c) \/ Shutdown(c) \/ Close(c)
    \/ \E c \in Conns, why \in {"eof", "timeout"} : RecvBreak(c, why)

SpecListener == InitListener /\ [][NextListener]_vars

(***************************************************************************)
(* The render payload of BlenderSocketClient.render_camera                 *)
(***************************************************************************)
\* the settings the payload stores in original_* variables before it changes
\* the scene; render_aa and viewport_aa only where scene.display has them
\* ("None" stands for the None the payload keeps otherwise)
Originals(sc) ==
    [camera |-> sc.set.camera,
     engine |-> sc.set.engine,
     resolution_x |-> sc.set.resolution_x,
     resolution_y |-> sc.set.resolution_y,
     resolution_percentage |-> sc.set.resolution_percentage,
     file_format |-> sc.set.file_format,
     color_mode |-> sc.set.color_mode,
     compression |-> sc.set.compression,
     use_motion_blur |-> sc.set.use_motion_blur,
     filepath |-> sc.set.filepath,
     render_aa |-> IF sc.has_aa THEN sc.set.render_aa ELSE "None",
     viewport_aa |-> IF sc.has_aa THEN sc.set.viewport_aa ELSE "None"]

\* the value the payload gives to setting k: the ultra-safe render settings
UltraSafe(sc, k) ==
    CASE k = "camera" -> PyStr(<<sc.camera_name>>)
      [] k = "resolution_x" -> IF sc.complex /\ sc.width > 512 THEN 512 ELSE sc.width
      [] k = "resolution_y" -> IF sc.complex /\ sc.height > 512 THEN 512 ELSE sc.height
      [] k = "resolution_percentage" -> 100
      [] k = "engine" -> "BLENDER_WORKBENCH"
      [] k \in {"render_aa", "viewport_aa"} -> IF sc.has_aa THEN "OFF" ELSE sc.set[k]
      [] k \in {"use_motion_blur", "use_freestyle", "use_compositing", "use_sequencer"} -> FALSE
      [] k = "file_format" -> "PNG"
      [] k = "color_mode" -> "RGB"
      [] k = "compression" -> 0
      [] k = "filepath" -> "/tmp/blender_safe_render.png"

\* the finally clause: the stored settings are assigned back, the camera
\* under "if original_camera:"
Restored(sc) ==
    [k \in DOMAIN sc.set |->
       CASE k = "camera" ->
              IF Falsy(sc.original.camera) THEN sc.set.camera ELSE sc.original.camera
         [] k \in {"render_aa", "viewport_aa"} ->
              IF sc.original[k] # "None" /\ sc.has_aa THEN sc.original[k] ELSE sc.set[k]
         [] k \in DOMAIN sc.original -> sc.original[k]
         [] OTHER -> sc.set[k]]

\* the payload starts: the camera is looked up; not found is answered at once,
\* otherwise the original settings are stored
PayloadStart(camera_name, width, height) ==
    /\ scene.pc \in {"idle", "done"}
    /\ IF camera_name \notin scene.cameras
       THEN scene' = [scene EXCEPT !.pc = "done",
                                   !.camera_name = camera_name,
                                   !.result = ErrorResult(<<"Camera", camera_name, "not", "found">>)]
       ELSE scene' = [scene EXCEPT !.pc = "apply",
                                   !.camera_name = camera_name,
                                   !.width = width,
                                   !.height = height,
                                   !.step = 0,
                                   !.original = Originals(scene),
                                   !.result = PyNone]
    /\ hist' = IF "before" \in DOMAIN hist THEN [hist EXCEPT !.before = scene.set] ELSE hist
    /\ UNCHANGED <<server, mcp, stream>>

\* the next assignment of the payload's setup
PayloadAssign ==
    /\ scene.pc = "apply"
    /\ scene.step < Len(Assigned)
    /\ LET k == Assigned[scene.step + 1] IN
       scene' = [scene EXCEPT !.set[k] = UltraSafe(scene, k),
                              !.step = @ + 1,
                              !.pc = IF scene.step + 1 = Len(Assigned) THEN "render" ELSE "apply"]
    /\ UNCHANGED <<server, hist, mcp, stream>>

\* an assignment of the setup raises: "except Exception as setup_error"
PayloadSetupError ==
    /\ scene.pc = "apply"
    /\ scene' = [scene EXCEPT !.pc = "restore",
                              !.result = ErrorResult(<<"Render", "setup", "failed">>)]
    /\ UNCHANGED <<server, hist, mcp, stream>>

\* the render: bpy.ops.render.render, or for a complex scene the OpenGL
\* render of a temporary scene the window is switched to; it writes the
\* file, writes none, or raises (with the window still on the temporary scene)
PayloadRender(outcome) ==
    /\ scene.pc = "render"
    /\ scene' = [scene EXCEPT
          !.pc = "restore",
          !.window = IF scene.complex /\ outcome = "raised" THEN "Griptape_Temp" ELSE @,
          !.result = CASE outcome = "file" ->
                            PyDict([success |-> PyBool(TRUE),
                                    camera_used |-> PyStr(<<scene.camera_name>>)])
                       [] outcome = "no_file" ->
                            ErrorResult(<<"Render", "completed", "but", "no", "output", "file">>)
                       [] outcome = "raised" ->
                            ErrorResult(<<"Render", "operation", "failed">>)]
    /\ UNCHANGED <<server, hist, mcp, stream>>

\* the finally clause
PayloadRestore ==
    /\ scene.pc = "restore"
    /\ scene' = [scene EXCEPT !.set = Restored(scene), !.pc = "done"]
    /\ UNCHANGED <<server, hist, mcp, stream>>

InitRender ==
    /\ running = FALSE
    /\ server_socket = 0
    /\ sockets = [s \in Socks |-> "unused"]
    /\ loops = [s \in Socks |-> [pc |-> "unborn", sk |-> 0]]
    /\ conn = [c \in Conns |-> FreeConn]
    /\ cl = IdleClient
    /\ scene \in {SceneOf(camera, engine, feature, has_aa, complex) :
                     camera \in {PyNone, PyStr(<<"Camera">>)},
                     engine \in {"BLENDER_EEVEE", "BLENDER_WORKBENCH"},
                     feature \in BOOLEAN, has_aa \in BOOLEAN, complex \in BOOLEAN}
    /\ hist = [faulted |-> FALSE, before |-> scene.set]
    /\ mcp = NoClient
    /\ stream = NewStream

\* render_camera is called with the default resolution and a camera of the
\* scene or a name that no object has
NextRender ==
    \/ \E camera_name \in {"Camera", "Side", "Missing"} :
         PayloadStart(camera_name, 1920, 1080)
    \/ PayloadAssign
    \/ PayloadSetupError
    \/ \E outcome \in {"file", "no_file", "raised"} : PayloadRender(outcome)
    \/ PayloadRestore

SpecRender == InitRender /\ [][NextRender]_vars

(***************************************************************************)
(* BlenderMCPClient: ensure_connected, call_tool, health_check             *)
(***************************************************************************)
\* the coroutine that is running
Top == mcp.stack[Len(mcp.stack)]

\* it is fn, at its start or after the coroutine it awaited has ended
At(fn, pc) == mcp.stack # <<>> /\ Top.fn = fn /\ Top.pc = pc

\* the running coroutine awaits fn(...): a new frame; with MaxDepth frames
\* on the stack the call raises RecursionError instead
Called(fn, tool) ==
    [mcp EXCEPT !.stack = Append([@ EXCEPT ![Len(@)].pc = "await"],
                                 [fn |-> fn, pc |-> "start", tool |-> tool]),
                !.ret = [kind |-> "none", val |-> ""]]

\* the running coroutine returns val or raises it
Finished(m, kind, val) ==
    [m EXCEPT !.stack = SubSeq(@, 1, Len(@) - 1), !.ret = [kind |-> kind, val |-> val]]

\* the history of a node's calls and captures, where it is kept
Keeps(h, field, val) == IF field \in DOMAIN h THEN [h EXCEPT ![field] = val] ELSE h
Kept(field) == IF field \in DOMAIN hist THEN hist[field] ELSE 0

\* disconnect() and then connect(), which starts Blender and initializes a
\* session (ok) or fails and leaves self.session None
Reconnected(ok) ==
    Finished([mcp EXCEPT !.session = ok], "value", IF ok THEN "True" ELSE "False")

\* a caller awaits one of the client's coroutines
McpCall(fn, tool) ==
    /\ mcp.stack = <<>>
    /\ mcp' = [mcp EXCEPT !.stack = <<[fn |-> fn, pc |-> "start", tool |-> tool]>>,
                          !.ret = [kind |-> "none", val |-> ""]]
    /\ hist' = IF "connects" \in DOMAIN hist
               THEN [hist EXCEPT !.connects = 0, !.checks = 0]
               ELSE hist
    /\ UNCHANGED <<server, scene, stream>>

\* ensure_connected up to its first await: connect() when there is no
\* session, otherwise the health check; a RecursionError of that call is
\* caught by the bare except, whose own calls find the stack full as well
\* or find the room the interpreter leaves for handlers
ensure_connected(ok) ==
    /\ At("ensure_connected", "start")
    /\ IF ~mcp.session
       THEN mcp' = Reconnected(ok) /\ hist' = Keeps(hist, "connects", Kept("connects") + 1)
       ELSE IF Len(mcp.stack) < MaxDepth
       THEN mcp' = Called("health_check", "health_check") /\ hist' = hist
       ELSE \/ mcp' = Reconnected(ok) /\ hist' = Keeps(hist, "connects", Kept("connects") + 1)
            \/ mcp' = Finished(mcp, "raise", "RecursionError") /\ hist' = hist
    /\ UNCHANGED <<server, scene, stream>>

\* ensure_connected after health_check(): True when it returned, disconnect
\* and connect when it raised
ensure_connected_checked(ok) ==
    /\ At("ensure_connected", "await")
    /\ IF mcp.ret.kind = "value"
       THEN mcp' = Finished(mcp, "value", "True") /\ hist' = hist
       ELSE mcp' = Reconnected(ok) /\ hist' = Keeps(hist, "connects", Kept("connects") + 1)
    /\ UNCHANGED <<server, scene, stream>>

\* health_check: return await self.call_tool("health_check")
health_check ==
    /\ \/ /\ At("health_check", "start")
          /\ mcp' = IF Len(mcp.stack) < MaxDepth THEN Called("call_tool", "health_check")
                    ELSE Finished(mcp, "raise", "RecursionError")
       \/ /\ At("health_check", "await")
          /\ mcp' = Finished(mcp, mcp.ret.kind, mcp.ret.val)
    /\ UNCHANGED <<server, hist, scene, stream>>

\* call_tool up to its first await: "if not await self.ensure_connected()"
call_tool ==
    /\ At("call_tool", "start")
    /\ mcp' = IF Len(mcp.stack) < MaxDepth THEN Called("ensure_connected", Top.tool)
              ELSE Finished(mcp, "raise", "RecursionError")
    /\ UNCHANGED <<server, hist, scene, stream>>

\* call_tool after ensure_connected(): its exception goes on to the caller,
\* False raises ConnectionError, True is followed by session.call_tool, whose
\* result or failure is returned as a map
call_tool_connected(ok) ==
    /\ At("call_tool", "await")
    /\ IF mcp.ret.kind = "raise"
       THEN mcp' = Finished(mcp, "raise", mcp.ret.val) /\ hist' = hist
       ELSE IF mcp.ret.val = "False"
       THEN mcp' = Finished(mcp, "raise", "ConnectionError") /\ hist' = hist
       ELSE /\ mcp' = Finished(mcp, "value", IF ok THEN "result" ELSE "error")
            /\ hist' = IF Top.tool = "health_check" THEN Keeps(hist, "checks", Kept("checks") + 1) ELSE hist
    /\ UNCHANGED <<server, scene, stream>>

\* the caller awaits disconnect(): the session is closed and forgotten
disconnect ==
    /\ mcp.stack = <<>>
    /\ mcp.session
    /\ mcp' = [mcp EXCEPT !.session = FALSE]
    /\ UNCHANGED <<server, hist, scene, stream>>

InitMcp ==
    /\ running = FALSE
    /\ server_socket = 0
    /\ sockets = [s \in Socks |-> "unused"]
    /\ loops = [s \in Socks |-> [pc |-> "unborn", sk |-> 0]]
    /\ conn = [c \in Conns |-> FreeConn]
    /\ cl = IdleClient
    /\ scene = SceneOf(PyStr(<<"Camera">>), "BLENDER_EEVEE", TRUE, TRUE, FALSE)
    /\ hist = [faulted |-> FALSE, connects |-> 0, checks |-> 0]
    /\ mcp = NoClient
    /\ stream = NewStream

NextMcp ==
    \/ McpCall("ensure_connected", "")
    \/ McpCall("health_check", "health_check")
    \/ \E tool \in {"list_cameras", "render_camera"} : McpCall("call_tool", tool)
    \/ \E ok \in BOOLEAN : ensure_connected(ok) \/ ensure_connected_checked(ok)
    \/ health_check
    \/ call_tool
    \/ \E ok \in BOOLEAN : call_tool_connected(ok)
    \/ disconnect

SpecMcp == InitMcp /\ [][NextMcp]_vars

(***************************************************************************)
(* BlenderCameraStream: process and _stream_worker                         *)
(***************************************************************************)
max_consecutive_errors == 5

\* the threads that have been started and have not left _stream_worker
Alive == {w \in Workers : stream.workers[w].pc \notin {"unborn", "dead"}}

\* the threads between a successful capture and the store of "+= 1"
Counting == {w \in Workers : stream.workers[w].pc \in {"count", "store"}}

\* process(): with start_stream set a stopped stream is started with a new
\* thread; with start_stream clear a running stream is told to stop and its
\* thread is joined; otherwise nothing changes
process(start_stream) ==
    /\ stream.pc = "idle"
    /\ IF start_stream /\ ~stream._streaming
       THEN \E w \in Workers :
              /\ stream.workers[w].pc = "unborn"
              /\ \A v \in Workers : v < w => stream.workers[v].pc # "unborn"
              /\ stream' = [stream EXCEPT !._streaming = TRUE,
                                          !._frame_count = 0,
                                          !._stream_thread = w,
                                          !.workers[w].pc = "while"]
              /\ hist' = Keeps(Keeps(Keeps(Keeps(hist, "good", 0), "row", 0),
                                     "stopped", 0), "published", 0)
       ELSE IF ~start_stream /\ stream._streaming
       THEN /\ stream' = [stream EXCEPT
                  !._streaming = FALSE,
                  !.pc = IF stream._stream_thread # 0 THEN "join" ELSE "idle"]
            /\ hist' = hist
       ELSE UNCHANGED <<stream, hist>>
    /\ UNCHANGED <<server, scene, mcp>>

\* self._stream_thread.join(timeout=2.0) returns: the thread has ended, or
\* two seconds have passed and it has not, being inside _capture_frame
\* (requests timeout 5 s) or in the backoff sleep,
\* min(0.5 * 2 ** consecutive_errors, 5.0), from the second error on
join(timed_out) ==
    /\ stream.pc = "join"
    /\ LET thread == stream.workers[stream._stream_thread] IN
       IF timed_out
       THEN \/ thread.pc = "capture"
            \/ thread.pc = "backoff" /\ thread.consecutive_errors >= 2
       ELSE stream._stream_thread \notin Alive
    /\ stream' = [stream EXCEPT !.pc = "idle"]
    /\ UNCHANGED <<server, hist, scene, mcp>>

\* "while self._streaming:"
WorkerWhile(w) ==
    /\ stream.workers[w].pc = "while"
    /\ stream' = [stream EXCEPT !.workers[w].pc = IF stream._streaming THEN "capture" ELSE "dead"]
    /\ UNCHANGED <<server, hist, scene, mcp>>

\* _capture_frame() returns a frame, or none: the error count goes up, and at
\* max_consecutive_errors the worker stops the stream and leaves its loop
WorkerCapture(w, frame_artifact) ==
    /\ stream.workers[w].pc = "capture"
    /\ IF frame_artifact
       THEN /\ stream._frame_count + Cardinality(Counting) < MaxFrames
            /\ stream' = [stream EXCEPT !.workers[w].consecutive_errors = 0,
                                        !.workers[w].pc = "count"]
            /\ hist' = Keeps(Keeps(Keeps(hist, "good", Kept("good") + 1), "row", 0),
                             "late", Kept("late") + Kept("stopped"))
       ELSE LET errors == stream.workers[w].consecutive_errors + 1 IN
            /\ stream' = [stream EXCEPT
                  !.workers[w].consecutive_errors = errors,
                  !.workers[w].pc = IF errors >= max_consecutive_errors THEN "dead" ELSE "backoff",
                  !._streaming = IF errors >= max_consecutive_errors THEN FALSE ELSE @]
            /\ hist' = Keeps(Keeps(Keeps(hist, "row", Kept("row") + 1),
                                   "late", Kept("late") + Kept("stopped")),
                             "stopped", IF errors >= max_consecutive_errors
                                        THEN 1 ELSE Kept("stopped"))
    /\ UNCHANGED <<server, scene, mcp>>

\* "self._frame_count += 1": the attribute is read, then written
WorkerCount(w) ==
    /\ \/ /\ stream.workers[w].pc = "count"
          /\ stream' = [stream EXCEPT !.workers[w].loaded = stream._frame_count,
                                      !.workers[w].pc = "store"]
       \/ /\ stream.workers[w].pc = "store"
          /\ stream' = [stream EXCEPT !._frame_count = stream.workers[w].loaded + 1,
                                      !.workers[w].loaded = 0,
                                      !.workers[w].pc = "publish"]
    /\ UNCHANGED <<server, hist, scene, mcp>>

\* parameter_output_values["frame_count"] = self._frame_count, published
WorkerPublish(w) ==
    /\ stream.workers[w].pc = "publish"
    /\ stream' = [stream EXCEPT !.frame_count = stream._frame_count,
                                !.workers[w].pc = "while"]
    /\ hist' = Keeps(hist, "published", stream._frame_count)
    /\ UNCHANGED <<server, scene, mcp>>

\* the backoff sleep after a failed capture ends
WorkerBackoff(w) ==
    /\ stream.workers[w].pc = "backoff"
    /\ stream' = [stream EXCEPT !.workers[w].pc = "while"]
    /\ UNCHANGED <<server, hist, scene, mcp>>

InitStream ==
    /\ running = FALSE
    /\ server_socket = 0
    /\ sockets = [s \in Socks |-> "unused"]
    /\ loops = [s \in Socks |-> [pc |-> "unborn", sk |-> 0]]
    /\ conn = [c \in Conns |-> FreeConn]
    /\ cl = IdleClient
    /\ scene = SceneOf(PyStr(<<"Camera">>), "BLENDER_EEVEE", TRUE, TRUE, FALSE)
    /\ mcp = NoClient
    /\ stream = NewStream
    /\ hist = [faulted |-> FALSE, good |-> 0, row |-> 0, stopped |-> 0, late |-> 0,
               published |-> 0]

NextStream ==
    \/ \E start_stream \in BOOLEAN : process(start_stream)
    \/ \E timed_out \in BOOLEAN : join(timed_out)
    \/ \E w \in Workers : WorkerWhile(w) \/ WorkerCount(w) \/ WorkerPublish(w) \/ WorkerBackoff(w)
    \/ \E w \in Workers, frame_artifact \in BOOLEAN : WorkerCapture(w, frame_artifact)

SpecStream == InitStream /\ [][NextStream]_vars

(***************************************************************************)
(* Properties of the server                                                *)
(***************************************************************************)
InLog(c, ev) == \E i \in DOMAIN conn[c].log : conn[c].log[i] = ev

\* the connections whose handler has called sendall
Sending == {c \in Conns : InLog(c, "send")}

\* the bytes handed to sendall on connection c
response_bytes(c) == json_dumps(conn[c].response)

\* a response map: success is there, and an error string unless success is true
WellFormedResponse(r) ==
    /\ Ty(r) = "dict"
    /\ "success" \in DOMAIN V(r)
    /\ V(r)["success"] # PyBool(TRUE) =>
         "error" \in DOMAIN V(r) /\ Ty(V(r)["error"]) = "str"

\* C2: every response the Connection Handler writes to a socket is a JSON
\* object that contains success, and an error string whenever success is not
\* true, for every command, every params value and every handler outcome.
C2_ResponsesWellFormed ==
    \A c \in Sending :
      LET doc == json_loads(response_bytes(c)) IN
      doc.ok /\ WellFormedResponse(doc.val)

\* a handler raised, and the response written says so
C2_Witness ==
    \E c \in Sending :
      /\ conn[c].pc = "done"
      /\ conn[c].wire = response_bytes(c)
      /\ conn[c].request = PyDict([command |-> PyStr(<<"health_check">>)])
      /\ conn[c].response =
           ErrorResult(<<"Command", "processing", "failed:">> \o HostFault.msg)

\* C3: once a complete request is decoded, the handler writes a response
\* before it closes the socket, whatever the command handler does (stated of
\* the call of sendall, so that a write that fails does not count against it).
C3_ResponseAfterDecode ==
    \A c \in Conns : conn[c].pc = "done" /\ conn[c].bound => InLog(c, "send")

\* a request that carries a command name and a params map
IsCommandRequest(r) ==
    /\ Ty(r) = "dict"
    /\ "command" \in DOMAIN V(r) /\ Ty(V(r)["command"]) = "str"
    /\ "params" \in DOMAIN V(r) /\ Ty(V(r)["params"]) = "dict"

\* C4: for every request with a command name and a params map,
\* _process_request returns a map containing success and does not raise.
C4_DispatchTotal ==
    \A c \in Conns :
      conn[c].bound /\ IsCommandRequest(conn[c].request) =>
        \A host \in Hosts :
          LET r == _process_request(conn[c].request, host) IN
          ~r.raised /\ Ty(r.val) = "dict" /\ "success" \in DOMAIN V(r.val)

\* C5: a request whose command is not registered is answered with exactly
\* {success: false, error: "Unknown command: <name>"}, and that is sent.
C5_UnknownCommand ==
    \A c \in Conns :
      /\ conn[c].bound /\ Ty(conn[c].request) = "dict"
      /\ dict_get(conn[c].request, "command", PyNone) \notin RegisteredCommands
      /\ conn[c].pc = "done"
      => /\ conn[c].response =
              ErrorResult(<<"Unknown", "command:">>
                            \o str(dict_get(conn[c].request, "command", PyNone)))
         /\ InLog(c, "send")

OutOfMemoryMessage ==
    <<"Out", "of", "memory", "-", "scene", "too", "complex", "for", "this", "operation">>
RecursionMessage ==
    <<"Operation", "too", "complex", "-", "recursion", "limit", "exceeded">>

\* the connections that have dispatched an execute_code request
Executed ==
    {c \in Conns : /\ InLog(c, "dispatch") /\ conn[c].bound
                   /\ IsCommandRequest(conn[c].request)
                   /\ V(conn[c].request)["command"] = PyStr(<<"execute_code">>)}

payload(c) == exec(dict_get(V(conn[c].request)["params"], "code", PyStr(<<>>)))

\* C6: an out-of-memory payload is answered with an error containing
\* "memory", a payload over the recursion limit with an error naming the
\* recursion limit, and every other payload exception with another message.
C6_ResourceExhaustion ==
    \A c \in Executed :
      LET e == payload(c)
          r == conn[c].response
      IN /\ e.raised /\ e.exc.cls = "MemoryError" =>
              r = ErrorResult(OutOfMemoryMessage) /\ Contains(OutOfMemoryMessage, "memory")
         /\ e.raised /\ e.exc.cls = "RecursionError" =>
              /\ r = ErrorResult(RecursionMessage)
              /\ Contains(RecursionMessage, "recursion") /\ Contains(RecursionMessage, "limit")
         /\ e.raised /\ IsException(e.exc)
               /\ e.exc.cls \notin {"MemoryError", "RecursionError"} =>
              /\ WellFormedResponse(r) /\ V(r)["success"] = PyBool(FALSE)
              /\ V(V(r)["error"]) \notin {OutOfMemoryMessage, RecursionMessage}

\* an out-of-memory payload has been answered on the wire
C6_Witness ==
    \E c \in Executed :
      /\ payload(c).raised /\ payload(c).exc.cls = "MemoryError"
      /\ conn[c].wire = json_dumps(ErrorResult(OutOfMemoryMessage))

\* C7: a step of a connection's handler, a faulting command handler included,
\* leaves the listener as it is: running, the listening socket and the accept
\* loop are untouched, so a later connection is accepted and served.
C7_FaultLeavesListener ==
    [][(\E c \in Conns : conn[c].st = "open" /\ conn'[c] # conn[c])
         => UNCHANGED listener]_vars

\* after a handler fault on an earlier connection, a later connection has
\* been accepted, dispatched and answered with success
C7_Witness ==
    /\ hist.faulted
    /\ \E c \in Conns :
         /\ conn[c].pc = "done" /\ InLog(c, "dispatch")
         /\ dict_get(conn[c].response, "success", PyNone) = PyBool(TRUE)
         /\ InLog(c, "half_close")
         /\ conn[c].wire = response_bytes(c) /\ conn[c].wrEof
    /\ running /\ \E t \in Socks : loops[t].pc = "accept"

\* C8: a connection whose bytes never parsed as a complete JSON message
\* (timeout or end-of-stream first) gets no response: zero bytes are written.
C8_NoResponseWithoutRequest ==
    \A c \in Conns : ~conn[c].bound => conn[c].wire = <<>> /\ ~InLog(c, "send")

StepOrder == <<"receive", "dispatch", "send", "half_close", "close">>
Rank(ev) == CHOOSE i \in DOMAIN StepOrder : StepOrder[i] = ev

\* C10: on every connection the steps occur in the order receive, dispatch,
\* send, half-close, close, none repeated; the half-close follows only a
\* complete write, and after a failed write the handler goes on to close.
C10_StepOrder ==
    \A c \in Conns :
      LET log == conn[c].log IN
      /\ \A i, j \in DOMAIN log : i < j => Rank(log[i]) < Rank(log[j])
      /\ InLog(c, "half_close") => InLog(c, "send") /\ conn[c].wire = response_bytes(c)
      /\ InLog(c, "send") /\ conn[c].wire # response_bytes(c) =>
           ~InLog(c, "half_close") /\ conn[c].pc \in {"close", "done"}

\* a connection has gone through all five steps
C10_Witness == \E c \in Conns : conn[c].log = StepOrder

\* the number of times ev is in a log
Count(log, ev) == Cardinality({i \in DOMAIN log : log[i] = ev})

\* the bytes of the client's request that have reached connection c
Written(c) == conn[c].text

\* C9: a connection carries at most one request and one response: its
\* handler dispatches at most once, sends at most once and does not receive
\* again after either; the client calls sendall once, with its one request,
\* on each connection it opens, and closes the connection after it.
C9_OneExchange ==
    /\ \A c \in Conns :
         LET log == conn[c].log IN
         /\ Count(log, "dispatch") <= 1
         /\ Count(log, "send") <= 1
         /\ \A i, j \in DOMAIN log :
              i < j /\ log[i] \in {"dispatch", "send", "half_close"} => log[j] # "receive"
    /\ \A i \in DOMAIN cl.trace :
         /\ cl.trace[i] = "connect" =>
              /\ i + 1 \in DOMAIN cl.trace => cl.trace[i + 1] = "sendall"
              /\ \A j \in DOMAIN cl.trace :
                   j > i + 1 /\ cl.trace[j] = "sendall" =>
                     \E k \in (i + 2)..(j - 1) : cl.trace[k] = "close"
         /\ cl.trace[i] = "sendall" => i > 1 /\ cl.trace[i - 1] = "connect"
    /\ cl.c # 0 =>
         /\ cl.pc = "send" => Written(cl.c) = <<>>
         /\ cl.pc = "recv" => Written(cl.c) = json_dumps(cl.request)

\* the client's one request has been dispatched and answered on the
\* connection it opened, and the client has returned the answer
C9_Witness ==
    /\ cl.pc = "returned"
    /\ cl.result = PyDict([success |-> PyBool(TRUE), result |-> PyInt(1)])
    /\ cl.trace = <<"socket", "connect", "sendall", "eof", "parse", "close">>
    /\ \E c \in Conns :
         /\ conn[c].request = cl.request
         /\ Count(conn[c].log, "dispatch") = 1 /\ Count(conn[c].log, "send") = 1

\* an error map of the client: success false and an error string
IsErrorMap(r) ==
    /\ Ty(r) = "dict"
    /\ DOMAIN V(r) = {"success", "error"}
    /\ V(r)["success"] = PyBool(FALSE)
    /\ Ty(V(r)["error"]) = "str"

\* C1: _send_command never raises to its caller; what it returns is an
\* error map (success false and an error string) unless it is the document
\* decoded from a response it has read to the end of the stream.
C1_NeverRaises ==
    /\ cl.pc # "raised"
    /\ cl.pc = "returned" =>
         \/ IsErrorMap(cl.result)
         \/ /\ cl.nchunks > 0 /\ Utf8Ok(cl.chunks)
            /\ json_loads(cl.chunks).ok
            /\ cl.result = json_loads(cl.chunks).val

\* three attempts have failed, the last on a response that is not UTF-8
\* after two refused connections, and the call has returned an error map
C1_Witness ==
    /\ cl.pc = "returned"
    /\ cl.attempt = max_retries - 1
    /\ cl.chunks = <<BadUtf8>>
    /\ cl.result = ClientError(<<"Unexpected", "error:", "invalid", "start", "byte">>)

IsPrefix(p, t) == Len(p) <= Len(t) /\ p = SubSeq(t, 1, Len(p))

\* C11: with several connections open at once, each handler reads only the
\* bytes of its own connection, dispatches the request decoded from them,
\* and writes the encoding of that dispatch's result to its own socket,
\* under every interleaving of the handler threads.
C11_OwnRequestOwnResponse ==
    \A c \in DOMAIN conn :
      /\ IsPrefix(conn[c].buffer, conn[c].text)
      /\ conn[c].bound =>
           json_loads(conn[c].buffer).ok /\ conn[c].request = json_loads(conn[c].buffer).val
      /\ InLog(c, "dispatch") =>
           \E host \in Hosts : conn[c].response = ProcessOutcome(c, host).val
      /\ InLog(c, "send") => IsPrefix(conn[c].wire, response_bytes(c))
      /\ InLog(c, "half_close") => conn[c].wire = response_bytes(c)
      /\ ~InLog(c, "send") => conn[c].wire = <<>>

\* two handlers are past their sendall at the same moment, each having
\* written the whole answer to its own request, and the answers differ
C11_Witness ==
    /\ \A c \in {1, 2} :
         /\ c \in DOMAIN conn
         /\ conn[c].st = "open" /\ conn[c].pc = "shutdown"
         /\ conn[c].wire = response_bytes(c)
    /\ conn[1].request = Req(PyStr(<<"health_check">>), PyDict(<<>>))
    /\ conn[2].request = Req(PyStr(<<"execute_code">>),
                             PyDict([code |-> PyStr(<<"result", "=", "1">>)]))
    /\ conn[1].wire # conn[2].wire

Min(a, b) == IF a <= b THEN a ELSE b

\* the connection attempts of the call so far: the calls of connect
ConnectAttempts == Count(cl.trace, "connect") + Count(cl.trace, "refused")

\* every attempt of the call so far has failed at connect
OnlyConnectFailures ==
    \A i \in DOMAIN cl.trace : cl.trace[i] \in {"socket", "refused", "close", "sleep"}

\* C12: a call makes at most 3 connection attempts, and exactly 3 when every
\* connect fails.
C12_AtMostThreeAttempts ==
    /\ ConnectAttempts <= 3
    /\ cl.pc = "returned" /\ OnlyConnectFailures => ConnectAttempts = 3

\* nothing listens, three connects have been refused and the call has returned
C12_Witness ==
    /\ cl.pc = "returned"
    /\ Listening = {}
    /\ cl.trace = <<"socket", "refused", "close", "sleep",
                    "socket", "refused", "close", "sleep",
                    "socket", "refused", "close">>

\* C13: a call that has exhausted its attempts, every connect having failed,
\* returns {success: false, error: "All connection attempts failed"}.
C13_AllAttemptsFailedMessage ==
    cl.pc = "returned" /\ Count(cl.trace, "refused") = max_retries =>
      cl.result = ClientError(<<"All", "connection", "attempts", "failed">>)

\* the attempt (0, 1, 2) that the i-th event of the trace belongs to
AttemptAt(i) == Count(SubSeq(cl.trace, 1, i), "sleep")

\* the failures after connect that have a clause of their own: a sendall
\* that raises a timeout, a broken pipe or a reset, a receive timeout, a
\* connection lost while receiving, a response that is not JSON
HandledFailures == {"send_failed", "recv_timeout", "recv_lost", "invalid_json"}
\* those left to the outer handler: another error of the socket, a response
\* that is not UTF-8
OtherFailures == {"socket_error", "send_error", "recv_error", "decode_failed"}

C15_DecodedResponseReturned ==
    \A i \in DOMAIN cl.trace :
      cl.trace[i] = "parse" /\ (i < Len(cl.trace) => cl.trace[i + 1] # "invalid_json") =>
        /\ i + 1 = Len(cl.trace) /\ cl.trace[i + 1] = "close"
        /\ cl.pc = "returned"
        /\ cl.result = json_loads(cl.chunks).val

\* the server's answer to a health_check that failed in its handler has
\* been returned by the first attempt
C15_Witness ==
    /\ cl.pc = "returned" /\ cl.attempt = 0
    /\ cl.request = Req(PyStr(<<"health_check">>), PyDict(<<>>))
    /\ cl.result = ErrorResult(<<"Command", "processing", "failed:">> \o HostFault.msg)
    /\ cl.trace = <<"socket", "connect", "sendall", "eof", "parse", "close">>

\* C16 as stated: a call with k failed connects performs exactly
\* min(k, max_attempts - 1) waits.
C16_WaitsPerFailedConnect ==
    cl.pc = "returned" =>
      Count(cl.trace, "sleep") = Min(Count(cl.trace, "refused"), max_retries - 1)

\* C16 amended: every wait is 1 s; a failed connect on a non-last attempt is
\* followed by one wait and the next attempt, a failed connect on the last
\* attempt by the return; a call with k failed connects and no attempt
\* retried for another failure performs exactly min(k, max_attempts - 1) waits.
C16_FixedDelayAfterFailedConnect ==
    /\ cl.slept = 1 * Count(cl.trace, "sleep")
    /\ \A i \in DOMAIN cl.trace :
         LET last == Len(cl.trace) IN
         cl.trace[i] = "refused" =>
           /\ i < last /\ cl.trace[i + 1] = "close"
           /\ AttemptAt(i) < max_retries - 1 =>
                /\ i + 1 = last => cl.pc = "sleep"
                /\ i + 1 < last => /\ cl.trace[i + 2] = "sleep"
                                   /\ i + 2 < last => cl.trace[i + 3] \in {"socket", "socket_error"}
           /\ AttemptAt(i) = max_retries - 1 => i + 1 = last /\ cl.pc = "returned"
    /\ cl.pc = "returned" /\ (\A i \in DOMAIN cl.trace : cl.trace[i] \notin OtherFailures) =>
         Count(cl.trace, "sleep") = Min(Count(cl.trace, "refused"), max_retries - 1)

\* two connects failed, each followed by a wait of 1 s, and the third
\* attempt brought the answer
C16_Witness ==
    /\ cl.pc = "returned" /\ cl.slept = 2
    /\ cl.trace = <<"socket", "refused", "close", "sleep", "socket", "refused", "close", "sleep",
                    "socket", "connect", "sendall", "eof", "parse", "close">>

TimedOutMessage == <<"Command", "timed", "out", "after", "timeout", "seconds">>

\* C17: when the request is sent and nothing arrives before the command
\* timeout, recv raises instead of blocking, and the call returns
\* {success: false, error: "Command timed out after <timeout> seconds"}.
C17_TimeoutReturned ==
    /\ cl.pc = "recv" /\ Unread = <<>> /\ ~ServerEof => ENABLED RecvFails("TimeoutError")
    /\ \A i \in DOMAIN cl.trace :
         cl.trace[i] = "recv_timeout" =>
           /\ i + 1 = Len(cl.trace)
           /\ cl.pc = "returned"
           /\ cl.result = ClientError(TimedOutMessage)
           /\ Contains(V(V(cl.result)["error"]), "timed")

\* the server has accepted the connection and not answered, no byte has
\* arrived, and the call has returned the timeout error
C17_Witness ==
    /\ cl.pc = "returned"
    /\ cl.nchunks = 0
    /\ cl.trace = <<"socket", "connect", "sendall", "recv_timeout", "close">>
    /\ cl.result = ClientError(TimedOutMessage)
    /\ \E c \in Conns : conn[c].st = "open" /\ conn[c].wire = <<>> /\ conn[c].pc # "done"

\* C18: the client calls json.loads only after the zero-length read, when
\* the server has half-closed or closed and every byte it wrote has been
\* read, once, over all the bytes accumulated; a call that returns from its
\* receive loop otherwise returns the error of a recv that raised.
C18_DecodeAtEndOfStream ==
    [][/\ Count(cl'.trace, "parse") # Count(cl.trace, "parse") =>
            /\ cl.pc = "recv" /\ ServerEof /\ Unread = <<>>
            /\ cl.chunks = Incoming /\ cl'.chunks = cl.chunks
            /\ Count(cl'.trace, "parse") = Count(cl.trace, "parse") + 1
            /\ \E tail \in {<<"close">>, <<"invalid_json", "close">>} :
                 cl'.trace = cl.trace \o <<"eof", "parse">> \o tail
       /\ cl.pc = "recv" /\ cl'.pc = "returned" /\ ~(ServerEof /\ Unread = <<>>) =>
            /\ cl'.trace[Len(cl'.trace) - 1] \in {"recv_timeout", "recv_lost", "recv_error"}
            /\ IsErrorMap(cl'.result)
      ]_vars

\* a response read in two chunks has been parsed after the end of the
\* stream and returned
C18_Witness ==
    /\ cl.pc = "returned" /\ cl.nchunks = 2
    /\ cl.result = PyDict([success |-> PyBool(TRUE), result |-> PyInt(1)])
    /\ cl.trace = <<"socket", "connect", "sendall", "eof", "parse", "close">>

Created == Count(cl.trace, "socket")
Closed == Count(cl.trace, "close")

C21_StartIdempotent ==
    [][(running /\ start) =>
          (running' /\ UNCHANGED <<server_socket, sockets, loops>>)]_vars

C21_Witness ==
    /\ running
    /\ "start" \in hist.noops
    /\ Cardinality({s \in DOMAIN sockets : sockets[s] # "unused"}) = 1
    /\ Cardinality({t \in DOMAIN loops : loops[t].pc # "unborn"}) = 1

\* C22: stop() on a running server clears running and closes the listening
\* socket, and the accept loop then terminates: the loop whose socket stop()
\* closed enters accept() no more; the accept error a loop sees while running
\* is false is not reported; a loop that has exited accepts nothing; stop()
\* on a server that is not running changes nothing.
C22_StopEndsLoop ==
    /\ [][(running /\ ~running') =>
            (server_socket # 0 /\ sockets'[server_socket] = "closed")]_vars
    /\ [][(~running /\ stop) => UNCHANGED listener]_vars
    /\ [][\A t \in DOMAIN loops :
            (~running /\ loops[t].pc = "accept" /\ loops'[t].pc = "done")
               => ~hist'.ended[t].reported]_vars
    /\ [][\A t \in DOMAIN loops :
            loops[t].pc = "done" => loops'[t].pc = "done"]_vars
    /\ [][\A t \in DOMAIN loops :
            (sockets[t] = "closed" /\ loops[t].pc = "while")
               => loops'[t].pc # "accept"]_vars

\* the errors of accept() after which the listening socket is of no use
FatalAcceptErrors == {"EBADF"}

\* C23: an accept error while the server is running is logged and the loop
\* continues; only a fatal socket-level error ends the loop: a loop that has
\* ended was ended by the running flag or by a fatal error.
C23_LoopSurvivesAcceptError ==
    \A t \in DOMAIN loops :
       loops[t].pc = "done" =>
          hist.ended[t].err \in {"none"} \cup FatalAcceptErrors

\* C24: a connection whose handler is still receiving, timing out or faulting
\* does not block the others: whatever the other handlers are doing, the
\* accept loop takes its next step and accepts a connection that waits in the
\* backlog, and every handler takes its own next step.
C24_AcceptNotBlocked ==
    /\ \A t \in DOMAIN loops :
         /\ loops[t].pc = "while" => ENABLED LoopWhile(t)
         /\ \A c \in DOMAIN conn :
              (/\ loops[t].pc = "accept"
               /\ sockets[loops[t].sk] = "listening"
               /\ conn[c].st = "backlog"
               /\ conn[c].sk = loops[t].sk) => ENABLED Accept(t, c)
    /\ \A c \in DOMAIN conn :
         /\ conn[c].pc = "process" => ENABLED Enter(c) \/ ENABLED Process(c)
         /\ conn[c].pc = "send" => ENABLED Send(c)
         /\ conn[c].pc = "shutdown" => ENABLED Shutdown(c)
         /\ conn[c].pc = "close" => ENABLED Close(c)

\* the handler of the connection accepted first still waits for its request
\* while the connection accepted after it has its whole response
C24_Witness ==
    /\ Len(hist.accepted) = 2
    /\ LET c == hist.accepted[1]
           d == hist.accepted[2]
       IN /\ conn[c].pc = "recv" /\ conn[c].buffer = <<>>
          /\ conn[d].pc = "done"
          /\ conn[d].wire = json_dumps(conn[d].response)
          /\ V(conn[d].response)["success"] = PyBool(TRUE)

\* C25: at most one accept loop is accepting at a time: the loop of an
\* earlier start() does not accept alongside the loop of a later start().
C25_OneAcceptLoop ==
    Cardinality({t \in DOMAIN loops :
                   loops[t].pc = "accept" /\ sockets[loops[t].sk] = "listening"}) <= 1

(***************************************************************************)
(* Properties of the wire format                                           *)
(***************************************************************************)
\* the requests among the documents the peers send
PeerRequests == {d \in PeerDocuments : Ty(d) = "dict" /\ "command" \in DOMAIN V(d)}

\* their bytes as json.dumps writes them
Encoded == [d \in PeerRequests |-> json_dumps(d)]

\* the handler of c has written its whole response
WroteAll(c) == InLog(c, "send") /\ conn[c].wire = response_bytes(c)

\* C26: the JSON encoding is lossless in both directions: the request the
\* server decodes and dispatches, in whatever pieces its bytes arrive, equals
\* the request that was encoded and written to the connection, and the
\* response the client decodes from the bytes the handler wrote, in whatever
\* pieces it reads them, equals the response the handler produced.
C26_RoundTrip ==
    \A c \in DOMAIN conn :
       /\ \A d \in PeerRequests :
            (conn[c].text = Encoded[d] /\ conn[c].bound)
               => conn[c].request = d
       /\ WroteAll(c) =>
            Decode(conn[c].wire, MaxChunks) = Return(conn[c].response)

\* a request that arrived in two pieces was dispatched as it was built, and
\* its response, numbers included, was written whole
C26_Witness ==
    \E c \in DOMAIN conn :
       /\ conn[c].nsent = 2
       /\ conn[c].request = Req(PyStr(<<"health_check">>), PyDict(<<>>))
       /\ conn[c].text = json_dumps(conn[c].request)
       /\ WroteAll(c)
       /\ "timestamp" \in DOMAIN V(conn[c].response)

(***************************************************************************)
(* Properties of the command handlers                                      *)
(***************************************************************************)
\* the connections that have dispatched the request of a command
Dispatched(command) ==
    {c \in DOMAIN conn :
       /\ InLog(c, "dispatch") /\ conn[c].bound
       /\ Ty(conn[c].request) = "dict"
       /\ dict_get(conn[c].request, "command", PyNone) = PyStr(<<command>>)
       /\ Ty(dict_get(conn[c].request, "params", PyDict(<<>>))) = "dict"}

\* the camera objects of the host's scene
CameraObjects(host) == {i \in DOMAIN host.objects : host.objects[i].type = "CAMERA"}

\* r is the success response that lists the cameras of host
ListsCamerasOf(host, r) ==
    /\ Ty(r) = "dict"
    /\ {"success", "cameras", "count"} \subseteq DOMAIN V(r)
    /\ V(r)["success"] = PyBool(TRUE)
    /\ Ty(V(r)["cameras"]) = "list"
    /\ LET cameras == V(V(r)["cameras"]) IN
         /\ Len(cameras) = Cardinality(CameraObjects(host))
         /\ {V(cameras[j])["name"] : j \in DOMAIN cameras}
              = {PyStr(<<host.objects[i].name>>) : i \in CameraObjects(host)}
         /\ V(r)["count"] = PyInt(Len(cameras))
         /\ CameraObjects(host) = {} =>
              V(r)["cameras"] = PyList(<<>>) /\ V(r)["count"] = PyInt(0)

ran(c) ==
    exec(dict_get(dict_get(conn[c].request, "params", PyDict(<<>>)),
                  "code", PyStr(<<>>)))

\* C28: execute_code returns {success: true, result: <value>} when the
\* payload runs without raising and leaves a value in the result slot, and
\* {success: true, message: ...} without a result field when the slot is
\* still None; the outer success is true also when the payload's own result
\* map carries success false.
C28_ExecuteCodeResult ==
    \A c \in Dispatched("execute_code") :
       ~ran(c).raised =>
          LET r == _execute_code(dict_get(dict_get(conn[c].request, "params", PyDict(<<>>)),
                                          "code", PyStr(<<>>))).val
          IN /\ V(r)["success"] = PyBool(TRUE)
             /\ ran(c).result # PyNone =>
                  DOMAIN V(r) = {"success", "result"} /\ V(r)["result"] = ran(c).result
             /\ ran(c).result = PyNone =>
                  DOMAIN V(r) = {"success", "message"} /\ Ty(V(r)["message"]) = "str"
             /\ IsEncodable(r) => conn[c].response = r

\* the render payload failed inside and its result map was sent in a
\* response whose own success is true
C28_Witness ==
    \E c \in Dispatched("execute_code") :
       /\ ran(c) = Ran(RenderFailed)
       /\ WroteAll(c)
       /\ conn[c].response = PyDict([success |-> PyBool(TRUE), result |-> RenderFailed])

\* the commands the client sends without params
BareCommands == {"health_check", "get_scene_info", "list_cameras"}

\* the responses _process_request can give to a request
Answers(request) == {_process_request(request, host).val : host \in Hosts}

\* C29: command is required and params defaults to empty: the client sends
\* an empty map when its caller passes no params; a request without params
\* is answered as the same request with an empty map is; a request without
\* command is answered with an error response that no command handler made.
C29_ParamsDefaultCommandRequired ==
    /\ \A command \in BareCommands :
         request_of(command, PyNone) = Req(PyStr(<<command>>), PyDict(<<>>))
    /\ \A c \in DOMAIN conn :
         (InLog(c, "dispatch") /\ conn[c].bound /\ Ty(conn[c].request) = "dict") =>
            LET request == V(conn[c].request) IN
            /\ ("params" \notin DOMAIN request /\ "command" \in DOMAIN request) =>
                 conn[c].response \in Answers(Req(request["command"], PyDict(<<>>)))
            /\ "command" \notin DOMAIN request =>
                 conn[c].response \in
                    {ErrorResult(<<"Unknown", "command:", "None">>),
                     ErrorResult(<<"Processing", "failed:">>
                                   \o NoAttribute(dict_get(conn[c].request, "params", PyNone),
                                                  "keys").msg)}

\* an execute_code request without params ran the empty payload
C29_Witness ==
    \E c \in DOMAIN conn :
       /\ conn[c].request = PyDict([command |-> PyStr(<<"execute_code">>)])
       /\ WroteAll(c)
       /\ conn[c].response =
            PyDict([success |-> PyBool(TRUE),
                    message |-> PyStr(<<"Code", "executed", "successfully">>)])

\* C30: the server decodes speculatively: at the first chunk boundary at
\* which the bytes accumulated so far are valid UTF-8 JSON it stops reading
\* and goes on to dispatch what they decode to, and it reads no byte that
\* arrives later.
C30_SpeculativeDecode ==
    /\ [](\A c \in DOMAIN conn :
            conn[c].bound =>
               /\ IsPrefix(conn[c].buffer, conn[c].text)
               /\ Utf8Ok(conn[c].buffer)
               /\ json_loads(conn[c].buffer) = [ok |-> TRUE, val |-> conn[c].request]
               /\ conn[c].pc # "recv")
    /\ [][\A c \in DOMAIN conn :
            /\ (/\ conn[c].pc = "recv"
                /\ conn'[c].buffer # conn[c].buffer
                /\ Utf8Ok(conn'[c].buffer)
                /\ json_loads(conn'[c].buffer).ok)
                  => conn'[c].bound /\ conn'[c].pc = "process"
            /\ (conn[c].bound /\ conn'[c].st = "open")
                  => /\ conn'[c].buffer = conn[c].buffer
                     /\ conn'[c].request = conn[c].request]_vars

\* the peer wrote 123 in two pieces; the handler decoded 12 from the first,
\* answered that, and closed without reading the 3 that arrived after it
C30_Witness ==
    \E c \in DOMAIN conn :
       /\ conn[c].text = <<"1", "2", "3">>
       /\ conn[c].off = 3
       /\ conn[c].buffer = <<"1", "2">>
       /\ conn[c].request = PyInt(12)
       /\ InLog(c, "dispatch")
       /\ conn[c].pc = "done"

\* C35: a command handler runs on a connection only after a complete request
\* was decoded from that connection's bytes: a handler whose receive loop
\* ended (end of stream, timeout, receive error) with nothing parsed either
\* returns before the dispatch (no data) or fails at the call itself, with
\* request unbound, before _process_request and any command handler is
\* entered, and what it goes on with is the error of that failed call.
C35_HandlerOnlyAfterParse ==
    \A c \in DOMAIN conn :
       /\ (~conn[c].bound /\ conn[c].buffer = <<>>) => ~InLog(c, "dispatch")
       /\ InLog(c, "dispatch") =>
            IF conn[c].bound
            THEN /\ IsPrefix(conn[c].buffer, conn[c].text)
                 /\ json_loads(conn[c].buffer) = [ok |-> TRUE, val |-> conn[c].request]
            ELSE conn[c].response =
                    ErrorResult(<<"Processing", "failed:", "cannot", "access",
                                  "local", "variable", "request">>)

\* the peer wrote "{" and closed; the handler left the loop at the end of
\* the stream with no request and went through the dispatch step to the close
C35_Witness ==
    \E c \in DOMAIN conn :
       /\ conn[c].buffer = <<"{">>
       /\ ~conn[c].bound
       /\ conn[c].peerEof
       /\ InLog(c, "dispatch")
       /\ conn[c].pc = "done"

(***************************************************************************)
(* Properties of the handler threads                                       *)
(***************************************************************************)
\* C31: the server does not serialize the handlers of different connections:
\* a handler thread enters _process_request whether or not the handler of
\* another connection is inside it, and one that is inside goes on whatever
\* the others do, so two handlers execute commands at the same time.
C31_HandlersNotSerialized ==
    \A c \in DOMAIN conn :
       /\ (conn[c].pc = "process" /\ c \notin hist.inside) => ENABLED Enter(c)
       /\ c \in hist.inside => conn[c].pc = "process" /\ ENABLED Process(c)

\* the handlers of two open connections are both inside _process_request,
\* one of them executing a payload
C31_Witness ==
    /\ hist.inside = {1, 2}
    /\ conn[1].st = "open" /\ conn[2].st = "open"
    /\ \E c \in {1, 2} :
         /\ Ty(conn[c].request) = "dict"
         /\ dict_get(conn[c].request, "command", PyNone) = PyStr(<<"execute_code">>)

\* C32: every Connection Handler eventually reaches Closed, whatever its
\* client does: a handler that is receiving ends with its socket closed, and
\* it closes the socket once.
C32_HandlerReachesClosed ==
    /\ \A c \in Conns : (conn[c].pc = "recv") ~> (conn[c].pc = "done")
    /\ [](\A c \in Conns :
            /\ Count(conn[c].log, "close") <= 1
            /\ conn[c].pc = "done" => Count(conn[c].log, "close") = 1)

\* C33: the running flag tells the truth about the accept loop: while
\* running is true an accept loop is alive on an open listening socket, so
\* once the loop has exited, for whatever reason, running is false.
C33_RunningTellsTruth ==
    running =>
       /\ server_socket # 0
       /\ sockets[server_socket] = "listening"
       /\ \E t \in DOMAIN loops : loops[t].pc \in {"while", "accept"}

(***************************************************************************)
(* Properties of the client's attempts                                     *)
(***************************************************************************)
\* C34: within one call the request is written on at most one attempt: a
\* new attempt starts only after a failure from before the request was sent.
C34_RequestSentOnce == Count(cl.trace, "sendall") <= 1

(***************************************************************************)
(* Properties of the render payload                                        *)
(***************************************************************************)
\* the settings of which the restoration is claimed
Claimed ==
    {"camera", "engine", "resolution_x", "resolution_y", "resolution_percentage",
     "file_format", "color_mode", "compression", "use_motion_blur", "use_freestyle",
     "use_compositing", "use_sequencer", "render_aa", "viewport_aa", "filepath"}

\* C36: after the render payload has finished, on any path, every scene
\* setting it modifies has the value it had before the payload ran, for
\* every initial scene, one without an active camera included.
C36_PayloadRestoresAll ==
    scene.pc = "done" => \A k \in Claimed : scene.set[k] = hist.before[k]

(***************************************************************************)
(* Properties of the MCP client                                            *)
(***************************************************************************)
\* how many of the coroutines of the call under way are fn
Frames(fn) == Cardinality({i \in DOMAIN mcp.stack : mcp.stack[i].fn = fn})

\* C37: ensure_connected ends on every call after one connect attempt when
\* there is no session, and after one health check, followed by at most one
\* disconnect and reconnect, when there is one: none of ensure_connected,
\* health_check and call_tool is entered again while it is running.
C37_EnsureConnectedBounded ==
    /\ \A fn \in {"ensure_connected", "health_check", "call_tool"} : Frames(fn) <= 1
    /\ hist.connects <= 1
    /\ hist.checks <= 1

(***************************************************************************)
(* Properties of the camera stream                                         *)
(***************************************************************************)
\* C39: at most one stream worker thread of a node is running at any time,
\* whatever start and stop requests process() has handled.
C39_OneWorker == Cardinality(Alive) <= 1

\* C38: the worker stops the stream exactly when 5 captures in a row have
\* failed: a stream it has stopped has 5 failures in a row behind it, 5
\* failures in a row leave no stream running, a successful capture starts
\* the count again, and after such a stop no capture is attempted until the
\* stream is started again.
C38_StopsAfterFiveInARow ==
    /\ hist.stopped = 1 => hist.row >= max_consecutive_errors
    /\ hist.row >= max_consecutive_errors => ~stream._streaming
    /\ hist.late = 0

\* C40: _frame_count is the number of successful captures since the stream
\* was last started (0 at the start, one more with each successful capture,
\* the same after a failed one), and the published frame_count never
\* decreases while a stream is running.
C40_FrameCountCountsSuccesses ==
    /\ [](Counting = {} => stream._frame_count = hist.good)
    /\ [][stream.frame_count' # stream.frame_count
             => stream.frame_count' >= hist.published]_vars

====
